---------------------------- MODULE Spec2Model ----------------------------
(***************************************************************************)
(* Model of the financial-statement normalisation and ratio pipeline of    *)
(* fs-app: FinancialRatioCalculator (src/financial_ratios.py).             *)
(*                                                                         *)
(* Account names are sequences of Hangul syllables, one string per         *)
(* syllable, written in Revised Romanization ("ja","san","chong","gye"     *)
(* is U+C790 U+C0B0 U+CD1D U+ACC4), so that Python's substring test        *)
(* `kw in account_name` is a real search over the code points of the name. *)
(* Python floats are modelled by exact rationals <<numerator,              *)
(* denominator>> in lowest terms.                                          *)
(***************************************************************************)
EXTENDS Integers, Sequences, FiniteSets, TLC

VARIABLES
    raw_data,           \* argument of _extract_key_accounts
    accounts,           \* dict built by _extract_key_accounts
    financial_data,     \* argument of calculate_ratios
    ratios,             \* value returned by calculate_ratios
    multi_year_data,    \* argument of calculate_multi_year_ratios
    multi_year_ratios,  \* value returned by calculate_multi_year_ratios
    pc,                 \* "start" before the call, then the call that returned
    year_order,         \* the keys of multi_year_data in the order .items() yields them
    calls,              \* the calls made so far on one calculator: argument and result
    api_list,           \* raw_data['list'], the argument of parse_financial_data
    parsed,             \* value returned by parse_financial_data
    threads,            \* the requests in flight: each thread's position and locals
    ratio_category,     \* arguments of get_ratio_trends, beside multi_year_ratios
    ratio_name,
    trend_data,         \* value returned by get_ratio_trends
    searcher,           \* the module globals of app.py
    fetcher,
    ratio_calculator,
    ai_analyzer,
    corp_codes,         \* the companies of the corp-code file on disk
    app_pc,             \* position of the main or request thread of app.py
    caller,             \* who called init_app
    retry_count,        \* parameters of the running init_app
    max_retries,
    attempts,           \* the try blocks of init_app entered since the call
    init_result,        \* value returned by init_app
    init_error,         \* the exception the handler of init_app caught
    query,              \* the q parameter of /search
    listed_results,     \* locals of search_companies
    all_results,
    combined_results,
    response            \* the status of the answer of /search

vars == <<raw_data, accounts, financial_data, ratios,
          multi_year_data, multi_year_ratios, pc,
          year_order, calls, api_list, parsed, threads,
          ratio_category, ratio_name, trend_data,
          searcher, fetcher, ratio_calculator, ai_analyzer, corp_codes,
          app_pc, caller, retry_count, max_retries, attempts, init_result,
          init_error,
          query, listed_results, all_results, combined_results, response>>

\* the arguments and the result of get_ratio_trends
trendVars == <<ratio_category, ratio_name, trend_data>>

\* the globals of app.py and the locals of its init_app and /search
appVars == <<searcher, fetcher, ratio_calculator, ai_analyzer, corp_codes,
             app_pc, caller, retry_count, max_retries, attempts, init_result,
             init_error,
             query, listed_results, all_results, combined_results, response>>

---------------------------------------------------------------------------
(* Bounds of the model *)

\* longest item list handed to _extract_key_accounts
MaxItems == 3
\* most canonical accounts in one statement handed to calculate_ratios
MaxAccounts == 2
\* amounts range over -1 .. MaxAmount
MaxAmount == 1
\* fiscal years in one multi-year request
MaxYears == 2
\* calls made in a row on one calculator instance
MaxCalls == 3
\* longest list handed to parse_financial_data
MaxApiItems == 2
\* longest amount text handed to _parse_amount
MaxText == 3

---------------------------------------------------------------------------
(* Python values *)

\* the empty dict {}
EmptyDict == <<>>

\* None
NoneValue == [type |-> "NoneType"]

\* get_ratio_trends has not been called
TrendsIdle ==
    /\ ratio_category = ""
    /\ ratio_name = ""
    /\ trend_data = EmptyDict

\* app.py is not running: its globals as the module sets them
AppIdle ==
    /\ searcher = NoneValue
    /\ fetcher = NoneValue
    /\ ratio_calculator = NoneValue
    /\ ai_analyzer = NoneValue
    /\ corp_codes = <<>>
    /\ app_pc = "idle"
    /\ caller = ""
    /\ retry_count = 0
    /\ max_retries = 0
    /\ attempts = 0
    /\ init_result = NoneValue
    /\ init_error = ""
    /\ query = <<>>
    /\ listed_results = <<>>
    /\ all_results = <<>>
    /\ combined_results = <<>>
    /\ response = ""

\* d[k] = v on a dict
Put(d, k, v) == [x \in (DOMAIN d) \cup {k} |-> IF x = k THEN v ELSE d[x]]

\* kw in account_name, on strings
Contains(account_name, kw) ==
    \E i \in 1..(Len(account_name) - Len(kw) + 1) :
        SubSeq(account_name, i, i + Len(kw) - 1) = kw

Abs(x) == IF x < 0 THEN 0 - x ELSE x

RECURSIVE Gcd(_, _)
Gcd(a, b) == IF b = 0 THEN a ELSE Gcd(b, a % b)

\* the quotient n / d of two ints (d # 0), as a rational in lowest terms
Rat(n, d) ==
    LET g == Gcd(Abs(n), Abs(d))
        s == IF d < 0 THEN 0 - 1 ELSE 1
    IN  <<(s * n) \div g, (s * d) \div g>>

---------------------------------------------------------------------------
(* Account-name keywords of _extract_key_accounts *)

KwTotalAssets        == <<"ja", "san", "chong", "gye">>
KwCurrentAssets      == <<"yu", "dong", "ja", "san">>
KwTotalLiabilities   == <<"bu", "chae", "chong", "gye">>
KwCurrentLiabilities == <<"yu", "dong", "bu", "chae">>
KwTotalEquity        == <<"ja", "bon", "chong", "gye">>
KwRevenue            == <<"mae", "chul", "aek">>
KwCostOfSales        == <<"mae", "chul", "won", "ga">>
KwOperatingProfit    == <<"yeong", "eop", "i", "ik">>
KwNetIncome          == <<"dang", "gi", "sun", "i", "ik">>
KwLoss               == <<"son", "sil">>

AccountKeys ==
    {"total_assets", "current_assets", "total_liabilities",
     "current_liabilities", "total_equity",
     "revenue", "operating_profit", "net_income"}

\* no branch of the chain taken
NoKey == "none"

---------------------------------------------------------------------------
(* _extract_key_accounts *)

RevenueRule_NoExclusion(account_name) ==
    Contains(account_name, KwRevenue)

\* 'maechulaek' in account_name and 'maechulwonga' not in account_name
RevenueRule(account_name) ==
    Contains(account_name, KwRevenue) /\ ~Contains(account_name, KwCostOfSales)

NetIncomeRule_NoExclusion(account_name) ==
    Contains(account_name, KwNetIncome)

\* 'danggisuniik' in account_name and 'sonsil' not in account_name
NetIncomeRule(account_name) ==
    Contains(account_name, KwNetIncome) /\ ~Contains(account_name, KwLoss)

\* the if/elif chain under sj_div == 'BS': the key of the branch taken
BalanceSheetBranch(account_name) ==
    IF Contains(account_name, KwTotalAssets) THEN "total_assets"
    ELSE IF Contains(account_name, KwCurrentAssets) THEN "current_assets"
    ELSE IF Contains(account_name, KwTotalLiabilities) THEN "total_liabilities"
    ELSE IF Contains(account_name, KwCurrentLiabilities) THEN "current_liabilities"
    ELSE IF Contains(account_name, KwTotalEquity) THEN "total_equity"
    ELSE NoKey

\* the if/elif chain under sj_div == 'IS'
IncomeStatementBranch(account_name) ==
    IF RevenueRule(account_name) THEN "revenue"
    ELSE IF Contains(account_name, KwOperatingProfit) THEN "operating_profit"
    ELSE IF NetIncomeRule(account_name) THEN "net_income"
    ELSE NoKey

BranchKey_NoGate(item) ==
    IF BalanceSheetBranch(item.account_name) # NoKey
    THEN BalanceSheetBranch(item.account_name)
    ELSE IncomeStatementBranch(item.account_name)

\* the outer if sj_div == 'BS' / elif sj_div == 'IS'
BranchKey(item) ==
    IF item.sj_div = "BS" THEN BalanceSheetBranch(item.account_name)
    ELSE IF item.sj_div = "IS" THEN IncomeStatementBranch(item.account_name)
    ELSE NoKey

AmountPair_Swapped(item) ==
    [current |-> item.previous_amount, previous |-> item.current_amount]

\* {'current': current_amount, 'previous': previous_amount}
AmountPair(item) ==
    [current |-> item.current_amount, previous |-> item.previous_amount]

StoreAccount_KeepFirst(accts, key, pair) ==
    IF key \in DOMAIN accts THEN accts ELSE Put(accts, key, pair)

StoreAccount_KeepPrevious(accts, key, pair) ==
    IF key \in DOMAIN accts
    THEN Put(accts, key, [current |-> pair.current, previous |-> accts[key].previous])
    ELSE Put(accts, key, pair)

\* accounts[key] = {...}: a plain dict assignment
StoreAccount(accts, key, pair) == Put(accts, key, pair)

ExtractItem_Independent(accts, item) ==
    LET nm == item.account_name
        hit == IF item.sj_div = "BS" THEN
                   {k \in AccountKeys :
                       \/ k = "total_assets" /\ Contains(nm, KwTotalAssets)
                       \/ k = "current_assets" /\ Contains(nm, KwCurrentAssets)
                       \/ k = "total_liabilities" /\ Contains(nm, KwTotalLiabilities)
                       \/ k = "current_liabilities" /\ Contains(nm, KwCurrentLiabilities)
                       \/ k = "total_equity" /\ Contains(nm, KwTotalEquity)}
               ELSE IF item.sj_div = "IS" THEN
                   {k \in AccountKeys :
                       \/ k = "revenue" /\ RevenueRule(nm)
                       \/ k = "operating_profit" /\ Contains(nm, KwOperatingProfit)
                       \/ k = "net_income" /\ NetIncomeRule(nm)}
               ELSE {}
    IN  [k \in (DOMAIN accts) \cup hit |->
            IF k \in hit THEN AmountPair(item) ELSE accts[k]]

ExtractItem_ResetOnUnmatched(accts, item) ==
    LET key == BranchKey(item)
    IN  IF key = NoKey THEN EmptyDict ELSE StoreAccount(accts, key, AmountPair(item))

\* one iteration of `for item in raw_data`
ExtractItem(accts, item) ==
    LET key == BranchKey(item)
    IN  IF key = NoKey THEN accts ELSE StoreAccount(accts, key, AmountPair(item))

RECURSIVE ExtractLoop(_, _, _)
ExtractLoop(items, i, accts) ==
    IF i > Len(items) THEN accts
    ELSE ExtractLoop(items, i + 1, ExtractItem(accts, items[i]))

_extract_key_accounts_Carry(items) == ExtractLoop(items, 1, accounts)

\* accounts = {}; for item in raw_data: ...; return accounts
_extract_key_accounts(items) == ExtractLoop(items, 1, EmptyDict)

---------------------------------------------------------------------------
(* The ratio engine: _calculate_*_ratios and calculate_ratios               *)

Positive_NonZero(x) == x # 0

\* the guard `if equity > 0:` before each division
Positive(x) == x > 0

Percent_Unscaled(n, d) == Rat(n, d)

\* (n / d) * 100
Percent(n, d) == Rat(n * 100, d)

GrowthRate_Unscaled(cur, prev) == Rat(cur - prev, prev)

\* ((current - previous) / previous) * 100
GrowthRate(cur, prev) == Rat((cur - prev) * 100, prev)

Turnover_Percent(n, d) == Rat(n * 100, d)

\* revenue / assets
Turnover(n, d) == Rat(n, d)

\* {'value': ..., 'name': ..., 'unit': ...}
RatioValue_NoUnit(v, nm, u) == [value |-> v, name |-> nm]

RatioValue(v, nm, u) == [value |-> v, name |-> nm, unit |-> u]

\* f"{value:.2f}" as test_ratios prints a ratio: the value in hundredths,
\* rounded to the nearest (no value of the model lies on a tie)
Hundredths(v) == (200 * v[1] + v[2]) \div (2 * v[2])

\* Each `if` block adds its key or leaves the dict alone.  With integer
\* amounts and the guards below no division raises, so the except clause
\* (ZeroDivisionError, TypeError, KeyError) is never entered.
_calculate_profitability_ratios(accts) ==
    LET r1 == IF /\ "net_income" \in DOMAIN accts
                 /\ "total_equity" \in DOMAIN accts
                 /\ Positive(accts["total_equity"].current)
              THEN Put(EmptyDict, "roe",
                       RatioValue(Percent(accts["net_income"].current,
                                          accts["total_equity"].current),
                                  "ROE (jagijabon-iingnyul)", "%"))
              ELSE EmptyDict
        r2 == IF /\ "net_income" \in DOMAIN accts
                 /\ "total_assets" \in DOMAIN accts
                 /\ Positive(accts["total_assets"].current)
              THEN Put(r1, "roa",
                       RatioValue(Percent(accts["net_income"].current,
                                          accts["total_assets"].current),
                                  "ROA (chongjasan-iingnyul)", "%"))
              ELSE r1
        r3 == IF /\ "operating_profit" \in DOMAIN accts
                 /\ "revenue" \in DOMAIN accts
                 /\ Positive(accts["revenue"].current)
              THEN Put(r2, "operating_margin",
                       RatioValue(Percent(accts["operating_profit"].current,
                                          accts["revenue"].current),
                                  "yeongeop-iingnyul", "%"))
              ELSE r2
        r4 == IF /\ "net_income" \in DOMAIN accts
                 /\ "revenue" \in DOMAIN accts
                 /\ Positive(accts["revenue"].current)
              THEN Put(r3, "net_margin",
                       RatioValue(Percent(accts["net_income"].current,
                                          accts["revenue"].current),
                                  "suniingnyul", "%"))
              ELSE r3
    IN  r4

_calculate_stability_ratios(accts) ==
    LET r1 == IF /\ "total_liabilities" \in DOMAIN accts
                 /\ "total_equity" \in DOMAIN accts
                 /\ Positive(accts["total_equity"].current)
              THEN Put(EmptyDict, "debt_ratio",
                       RatioValue(Percent(accts["total_liabilities"].current,
                                          accts["total_equity"].current),
                                  "buchae-biyul", "%"))
              ELSE EmptyDict
        r2 == IF /\ "total_equity" \in DOMAIN accts
                 /\ "total_assets" \in DOMAIN accts
                 /\ Positive(accts["total_assets"].current)
              THEN Put(r1, "equity_ratio",
                       RatioValue(Percent(accts["total_equity"].current,
                                          accts["total_assets"].current),
                                  "jagijabon-biyul", "%"))
              ELSE r1
        r3 == IF /\ "current_assets" \in DOMAIN accts
                 /\ "current_liabilities" \in DOMAIN accts
                 /\ Positive(accts["current_liabilities"].current)
              THEN Put(r2, "current_ratio",
                       RatioValue(Percent(accts["current_assets"].current,
                                          accts["current_liabilities"].current),
                                  "yudong-biyul", "%"))
              ELSE r2
    IN  r3

_calculate_growth_ratios(accts) ==
    LET r1 == IF /\ "revenue" \in DOMAIN accts
                 /\ Positive(accts["revenue"].previous)
              THEN Put(EmptyDict, "revenue_growth",
                       RatioValue(GrowthRate(accts["revenue"].current,
                                             accts["revenue"].previous),
                                  "maechulaek jeunggayul", "%"))
              ELSE EmptyDict
        r2 == IF /\ "net_income" \in DOMAIN accts
                 /\ Positive(accts["net_income"].previous)
              THEN Put(r1, "income_growth",
                       RatioValue(GrowthRate(accts["net_income"].current,
                                             accts["net_income"].previous),
                                  "suniik jeunggayul", "%"))
              ELSE r1
        r3 == IF /\ "total_assets" \in DOMAIN accts
                 /\ Positive(accts["total_assets"].previous)
              THEN Put(r2, "asset_growth",
                       RatioValue(GrowthRate(accts["total_assets"].current,
                                             accts["total_assets"].previous),
                                  "chongjasan jeunggayul", "%"))
              ELSE r2
    IN  r3

_calculate_activity_ratios_DefaultZero(accts) ==
    IF "total_assets" \in DOMAIN accts /\ Positive(accts["total_assets"].current)
    THEN Put(EmptyDict, "asset_turnover",
             RatioValue(Turnover(IF "revenue" \in DOMAIN accts
                                 THEN accts["revenue"].current ELSE 0,
                                 accts["total_assets"].current),
                        "chongjasan-hoejeonyul", "hoe"))
    ELSE EmptyDict

_calculate_activity_ratios(accts) ==
    IF /\ "revenue" \in DOMAIN accts
       /\ "total_assets" \in DOMAIN accts
       /\ Positive(accts["total_assets"].current)
    THEN Put(EmptyDict, "asset_turnover",
             RatioValue(Turnover(accts["revenue"].current,
                                 accts["total_assets"].current),
                        "chongjasan-hoejeonyul", "hoe"))
    ELSE EmptyDict

EmptyInput_KeyOnly(data) ==
    \/ data = EmptyDict
    \/ "raw_data" \notin DOMAIN data

\* not financial_data or not financial_data.get('raw_data')
EmptyInput(data) ==
    \/ data = EmptyDict
    \/ "raw_data" \notin DOMAIN data
    \/ data["raw_data"] = <<>>

calculate_ratios(data) ==
    IF EmptyInput(data) THEN EmptyDict
    ELSE LET accts == _extract_key_accounts(data["raw_data"])
         IN  [profitability |-> _calculate_profitability_ratios(accts),
              stability     |-> _calculate_stability_ratios(accts),
              growth        |-> _calculate_growth_ratios(accts),
              activity      |-> _calculate_activity_ratios(accts)]

\* except (ZeroDivisionError, TypeError, KeyError): pass
Caught == {"ZeroDivisionError", "TypeError", "KeyError"}

\* the largest quotient that int / int returns as a float
\* (sys.float_info.max), on the scale of the model's amounts
FloatMax == 2000000

\* an int whose quotient by a small int is beyond the floats
HugeAmount == 2 * FloatMax

\* what n / d raises on ints: "none" when it returns a float
TrueDivide(n, d) ==
    IF d = 0 THEN "ZeroDivisionError"
    ELSE IF Abs(n) \div Abs(d) > FloatMax THEN "OverflowError"
    ELSE "none"

\* (numerator, denominator) of the quotients of current amounts, and the
\* accounts of the growth rates
QuotientPairs ==
    {<<"net_income", "total_equity">>, <<"net_income", "total_assets">>,
     <<"operating_profit", "revenue">>, <<"net_income", "revenue">>,
     <<"total_liabilities", "total_equity">>, <<"total_equity", "total_assets">>,
     <<"current_assets", "current_liabilities">>, <<"revenue", "total_assets">>}
GrowthAccounts == {"revenue", "net_income", "total_assets"}

\* the divisions <<n, d>> the four families execute on accts: those whose
\* `in accounts` and `> 0` tests pass
Divisions(accts) ==
    {<<accts[q[1]].current, accts[q[2]].current>> :
        q \in {p \in QuotientPairs : /\ p[1] \in DOMAIN accts
                                     /\ p[2] \in DOMAIN accts
                                     /\ Positive(accts[p[2]].current)}}
    \cup
    {<<accts[k].current - accts[k].previous, accts[k].previous>> :
        k \in {g \in GrowthAccounts : /\ g \in DOMAIN accts
                                      /\ Positive(accts[g].previous)}}

\* the exceptions that leave a family: those no except clause names
Escaping(accts) ==
    ({TrueDivide(nd[1], nd[2]) : nd \in Divisions(accts)} \ {"none"}) \ Caught

\* the exceptions calculate_ratios(data) raises: {} when it returns
calculate_ratios_raises(data) ==
    IF EmptyInput(data) THEN {}
    ELSE Escaping(_extract_key_accounts(data["raw_data"]))

\* the exceptions calculate_multi_year_ratios(data) raises: its loop has no
\* try, so those of any year's calculate_ratios
calculate_multi_year_ratios_raises(data) ==
    UNION {calculate_ratios_raises(data[year]) : year \in DOMAIN data}

MultiYearStep_CarryForward(acc, year, data) ==
    Put(acc, year,
        IF calculate_ratios(data[year]) = EmptyDict /\ DOMAIN acc # {}
        THEN acc[CHOOSE y \in DOMAIN acc : TRUE]
        ELSE calculate_ratios(data[year]))

\* ratios = self.calculate_ratios(data); multi_year_ratios[year] = ratios
MultiYearStep(acc, year, data) == Put(acc, year, calculate_ratios(data[year]))

\* the for loop over multi_year_data.items(), from the i-th key on
RECURSIVE MultiYearLoop(_, _, _, _)
MultiYearLoop(data, order, i, acc) ==
    IF i > Len(order) THEN acc
    ELSE MultiYearLoop(data, order, i + 1, MultiYearStep(acc, order[i], data))

calculate_multi_year_ratios_SkipEmpty(data, order) ==
    [year \in {y \in DOMAIN data : ~EmptyInput(data[y])} |->
        calculate_ratios(data[year])]

\* multi_year_ratios = {}; for year, data in multi_year_data.items(): ...;
\* return multi_year_ratios
calculate_multi_year_ratios(data, order) == MultiYearLoop(data, order, 1, EmptyDict)

---------------------------------------------------------------------------
(* Inputs of _extract_key_accounts: items as parse_financial_data builds    *)
(* them (account_name, sj_div, current_year.amount, previous_year.amount)   *)

\* account names that satisfy several rules, or a rule and its exclusion
NmCurrentAssetsTotal      == <<"yu", "dong">> \o KwTotalAssets
NmRevenueCostOfSales      == KwRevenue \o KwCostOfSales
NmRevenueOperatingProfit  == KwRevenue \o KwOperatingProfit
NmNetIncomeOrLoss         == KwNetIncome \o <<"(">> \o KwLoss \o <<")">>
NmNetLoss                 == <<"dang", "gi", "sun">> \o KwLoss
NmCash                    == <<"hyeon", "geum">>

\* (account_name, sj_div) of the items fed to the extractor
ExtractNames ==
    {<<KwTotalAssets, "BS">>, <<KwCurrentAssets, "BS">>,
     <<NmCurrentAssetsTotal, "BS">>, <<KwTotalLiabilities, "BS">>,
     <<KwCurrentLiabilities, "BS">>, <<KwTotalEquity, "BS">>,
     <<NmCash, "BS">>,
     <<KwRevenue, "IS">>, <<KwCostOfSales, "IS">>,
     <<NmRevenueCostOfSales, "IS">>, <<KwOperatingProfit, "IS">>,
     <<NmRevenueOperatingProfit, "IS">>, <<KwNetIncome, "IS">>,
     <<NmNetIncomeOrLoss, "IS">>, <<NmNetLoss, "IS">>,
     <<KwTotalAssets, "IS">>, <<KwRevenue, "BS">>, <<KwTotalAssets, "CF">>}

Item(nm, sj, cur, prev) ==
    [account_name |-> nm, sj_div |-> sj,
     current_amount |-> cur, previous_amount |-> prev]

\* The extractor never reads an amount, so row i carries the amounts
\* (2i - 1, 2i): every amount of a list is distinct and names its row.
Rows(names) ==
    [i \in DOMAIN names |-> Item(names[i][1], names[i][2], 2 * i - 1, 2 * i)]

---------------------------------------------------------------------------
(* Specification of _extract_key_accounts on every bounded item list *)

InitExtract ==
    /\ \E n \in 0..MaxItems :
           \E names \in [1..n -> ExtractNames] : raw_data = Rows(names)
    /\ accounts = EmptyDict
    /\ financial_data = EmptyDict
    /\ ratios = EmptyDict
    /\ multi_year_data = EmptyDict
    /\ multi_year_ratios = EmptyDict
    /\ pc = "start"
    /\ year_order = <<>>
    /\ calls = <<>>
    /\ api_list = <<>>
    /\ parsed = EmptyDict
    /\ threads = <<>>
    /\ TrendsIdle
    /\ AppIdle

ExtractKeyAccounts ==
    /\ pc = "start"
    /\ accounts' = _extract_key_accounts(raw_data)
    /\ pc' = "extracted"
    /\ UNCHANGED <<raw_data, financial_data, ratios,
                   multi_year_data, multi_year_ratios,
                   year_order, calls, api_list, parsed, threads, trendVars, appVars>>

NextExtract == ExtractKeyAccounts

SpecExtract == InitExtract /\ [][NextExtract]_vars

---------------------------------------------------------------------------
(* Inputs of calculate_ratios: a parsed statement {'raw_data': [...]}, or   *)
(* {} as parse_financial_data returns for an empty response                 *)

Amounts == (0 - 1)..MaxAmount

\* the plain account name and statement type of each canonical account
PlainName(k) ==
    CASE k = "total_assets"        -> <<KwTotalAssets, "BS">>
      [] k = "current_assets"      -> <<KwCurrentAssets, "BS">>
      [] k = "total_liabilities"   -> <<KwTotalLiabilities, "BS">>
      [] k = "current_liabilities" -> <<KwCurrentLiabilities, "BS">>
      [] k = "total_equity"        -> <<KwTotalEquity, "BS">>
      [] k = "revenue"             -> <<KwRevenue, "IS">>
      [] k = "operating_profit"    -> <<KwOperatingProfit, "IS">>
      [] k = "net_income"          -> <<KwNetIncome, "IS">>

\* the order in which a statement lists its accounts
AccountOrder ==
    <<"total_assets", "current_assets", "total_liabilities",
      "current_liabilities", "total_equity",
      "revenue", "operating_profit", "net_income">>

\* the statement listing the accounts K, balance sheet first, with amounts amt
Statement(K, amt) ==
    LET ks == SelectSeq(AccountOrder, LAMBDA k : k \in K)
    IN  [i \in DOMAIN ks |->
            Item(PlainName(ks[i])[1], PlainName(ks[i])[2],
                 amt[ks[i]][1], amt[ks[i]][2])]

\* sample_data of test_ratios, its amounts in millions (the model's
\* integers are 32-bit)
SampleData ==
    <<Item(KwTotalAssets, "BS", 1000000, 900000),
      Item(KwTotalLiabilities, "BS", 400000, 380000),
      Item(KwTotalEquity, "BS", 600000, 520000),
      Item(KwRevenue, "IS", 800000, 750000),
      Item(KwNetIncome, "IS", 80000, 70000)>>

\* statements with amounts of a statement's size: sample_data, one with
\* the accounts sample_data lacks, and two years of revenue
SampleStatements ==
    {SampleData,
     <<Item(KwCurrentAssets, "BS", 300, 250),
       Item(KwCurrentLiabilities, "BS", 200, 180),
       Item(KwRevenue, "IS", 800, 750),
       Item(KwOperatingProfit, "IS", 120, 100)>>,
     <<Item(KwRevenue, "IS", 1100, 1000)>>,
     <<Item(KwRevenue, "IS", 900, 1000)>>}

---------------------------------------------------------------------------
(* Specification of calculate_ratios on every bounded statement *)

InitRatios ==
    /\ \/ financial_data = EmptyDict
       \/ \E s \in SampleStatements : financial_data = [raw_data |-> s]
       \/ \E K \in SUBSET AccountKeys :
              /\ Cardinality(K) <= MaxAccounts
              /\ \E amt \in [K -> Amounts \X Amounts] :
                     financial_data = [raw_data |-> Statement(K, amt)]
    /\ raw_data = <<>>
    /\ accounts = EmptyDict
    /\ ratios = EmptyDict
    /\ multi_year_data = EmptyDict
    /\ multi_year_ratios = EmptyDict
    /\ pc = "start"
    /\ year_order = <<>>
    /\ calls = <<>>
    /\ api_list = <<>>
    /\ parsed = EmptyDict
    /\ threads = <<>>
    /\ TrendsIdle
    /\ AppIdle

\* calculate_ratios(financial_data); accounts is its local of that name
CalculateRatios ==
    /\ pc = "start"
    /\ accounts' = IF EmptyInput(financial_data) THEN accounts
                   ELSE _extract_key_accounts(financial_data["raw_data"])
    /\ IF calculate_ratios_raises(financial_data) = {}
       THEN /\ ratios' = calculate_ratios(financial_data)
            /\ pc' = "done"
       ELSE /\ ratios' = ratios
            /\ pc' = "raised"
    /\ UNCHANGED <<raw_data, financial_data, multi_year_data, multi_year_ratios,
                   year_order, calls, api_list, parsed, threads, trendVars, appVars>>

NextRatios == CalculateRatios

SpecRatios == InitRatios /\ [][NextRatios]_vars

---------------------------------------------------------------------------
(* Specification of calculate_multi_year_ratios *)

Years == 2022..(2021 + MaxYears)

\* the orders in which a dict with the keys Y can yield them
Orders(Y) ==
    {o \in [1..Cardinality(Y) -> Y] : \A i, j \in DOMAIN o : o[i] = o[j] => i = j}

\* what one year of get_multi_year_data can hold
YearStatements ==
    {EmptyDict, [raw_data |-> <<>>], [raw_data |-> <<Item(NmCash, "BS", 1, 1)>>]}
    \cup {[raw_data |-> s] : s \in SampleStatements}
    \cup {[raw_data |-> <<Item(KwTotalAssets, "BS", a, b),
                          Item(KwRevenue, "IS", b, a)>>] :
              a \in 1..(MaxAmount + 1), b \in 1..(MaxAmount + 1)}

InitMulti ==
    /\ \E Y \in SUBSET Years :
           /\ multi_year_data \in [Y -> YearStatements]
           /\ year_order \in Orders(Y)
    /\ raw_data = <<>>
    /\ accounts = EmptyDict
    /\ financial_data = EmptyDict
    /\ ratios = EmptyDict
    /\ multi_year_ratios = EmptyDict
    /\ pc = "start"
    /\ calls = <<>>
    /\ api_list = <<>>
    /\ parsed = EmptyDict
    /\ threads = <<>>
    /\ TrendsIdle
    /\ AppIdle

CalculateMultiYearRatios ==
    /\ pc = "start"
    /\ IF calculate_multi_year_ratios_raises(multi_year_data) = {}
       THEN /\ multi_year_ratios' =
                   calculate_multi_year_ratios(multi_year_data, year_order)
            /\ pc' = "done"
       ELSE /\ multi_year_ratios' = multi_year_ratios
            /\ pc' = "raised"
    /\ UNCHANGED <<raw_data, accounts, financial_data, ratios, multi_year_data,
                   year_order, calls, api_list, parsed, threads, trendVars, appVars>>

NextMulti == CalculateMultiYearRatios

SpecMulti == InitMulti /\ [][NextMulti]_vars

---------------------------------------------------------------------------
(* Specification of repeated calls on one calculator instance: __init__
   stores nothing on self, and the calls follow each other in any order *)

\* item lists handed to _extract_key_accounts by the calls
CallLists ==
    {<<>>,
     Rows(<<<<KwRevenue, "IS">>>>),
     Rows(<<<<KwTotalAssets, "BS">>>>),
     Rows(<<<<KwRevenue, "IS">>, <<KwTotalAssets, "BS">>>>),
     Rows(<<<<KwTotalEquity, "BS">>, <<KwRevenue, "IS">>>>)}

InitCalls ==
    /\ raw_data = <<>>
    /\ accounts = EmptyDict
    /\ financial_data = EmptyDict
    /\ ratios = EmptyDict
    /\ multi_year_data = EmptyDict
    /\ multi_year_ratios = EmptyDict
    /\ pc = "start"
    /\ year_order = <<>>
    /\ calls = <<>>
    /\ api_list = <<>>
    /\ parsed = EmptyDict
    /\ threads = <<>>
    /\ TrendsIdle
    /\ AppIdle

\* calculator._extract_key_accounts(items)
CallExtractKeyAccounts ==
    /\ Len(calls) < MaxCalls
    /\ \E items \in CallLists :
           /\ raw_data' = items
           /\ accounts' = _extract_key_accounts(items)
           /\ calls' = Append(calls, [method |-> "_extract_key_accounts",
                                      argument |-> items,
                                      result |-> accounts'])
    /\ pc' = "extracted"
    /\ UNCHANGED <<financial_data, ratios, multi_year_data, multi_year_ratios,
                   year_order, api_list, parsed, threads, trendVars, appVars>>

\* calculator.calculate_ratios(data), between two calls of the extractor
CallCalculateRatios ==
    /\ Len(calls) < MaxCalls
    /\ \E data \in {EmptyDict} \cup {[raw_data |-> s] : s \in SampleStatements} :
           /\ financial_data' = data
           /\ ratios' = calculate_ratios(data)
           /\ accounts' = IF EmptyInput(data) THEN accounts
                          ELSE _extract_key_accounts(data["raw_data"])
           /\ calls' = Append(calls, [method |-> "calculate_ratios",
                                      argument |-> data,
                                      result |-> ratios'])
    /\ pc' = "done"
    /\ UNCHANGED <<raw_data, multi_year_data, multi_year_ratios,
                   year_order, api_list, parsed, threads, trendVars, appVars>>

NextCalls == CallExtractKeyAccounts \/ CallCalculateRatios

SpecCalls == InitCalls /\ [][NextCalls]_vars

---------------------------------------------------------------------------
(* Specification of the pipeline on item lists of every shape: string names,
   integer amounts of any size and sign, any sj_div *)

PipelineAmounts == {0 - 1, 0, 1, HugeAmount}

\* the empty list, lists of one statement type, duplicate names, an
\* unknown sj_div, and equity beside net income with amounts of every kind
PipelineLists ==
    {<<>>,
     <<Item(KwTotalAssets, "BS", 2, 1), Item(KwTotalEquity, "BS", 1, 1)>>,
     <<Item(KwRevenue, "IS", 2, 1), Item(KwNetIncome, "IS", 1, 1)>>,
     <<Item(KwRevenue, "IS", 2, 1), Item(KwRevenue, "IS", 3, 0)>>,
     <<Item(KwTotalAssets, "CF", 2, 1), Item(NmCash, "", 1, 1)>>}
    \cup {<<Item(KwTotalEquity, "BS", a, 1), Item(KwNetIncome, "IS", c, b)>> :
             a \in PipelineAmounts, c \in PipelineAmounts, b \in {0, 1}}

\* one year of a multi-year request
PipelineYears ==
    {EmptyDict, [raw_data |-> <<>>],
     [raw_data |-> <<Item(KwTotalEquity, "BS", 0, 1), Item(KwNetIncome, "IS", 1, 0)>>],
     [raw_data |-> <<Item(KwTotalEquity, "BS", 2, 1), Item(KwNetIncome, "IS", 1, 1)>>],
     [raw_data |-> <<Item(KwTotalEquity, "BS", 1, 1),
                     Item(KwNetIncome, "IS", HugeAmount, 1)>>]}

InitPipeline ==
    /\ raw_data = <<>>
    /\ accounts = EmptyDict
    /\ financial_data \in {[raw_data |-> items] : items \in PipelineLists}
    /\ ratios = EmptyDict
    /\ \E Y \in SUBSET Years :
           /\ multi_year_data \in [Y -> PipelineYears]
           /\ year_order \in Orders(Y)
    /\ multi_year_ratios = EmptyDict
    /\ pc = "start"
    /\ calls = <<>>
    /\ api_list = <<>>
    /\ parsed = EmptyDict
    /\ threads = <<>>
    /\ TrendsIdle
    /\ AppIdle

NextPipeline == CalculateRatios \/ CalculateMultiYearRatios

SpecPipeline == InitPipeline /\ [][NextPipeline]_vars

---------------------------------------------------------------------------
(* The statement classifier: parse_financial_data and _parse_amount.
   A JSON value of the API is tagged with its Python type; a text is the
   sequence of its characters *)

Str(t) == [type |-> "str", text |-> t]
IntValue(n) == [type |-> "int", value |-> n]

Digits == {"0", "1", "2"}
DigitValue(c) == CASE c = "0" -> 0 [] c = "1" -> 1 [] c = "2" -> 2

RemoveCommas_Keep(t) == t

\* amount_str.replace(',', '')
RemoveCommas(t) == SelectSeq(t, LAMBDA c : c # ",")

\* int() ignores whitespace around the literal
RECURSIVE LStrip(_)
LStrip(t) == IF t # <<>> /\ Head(t) = " " THEN LStrip(Tail(t)) ELSE t
RECURSIVE RStrip(_)
RStrip(t) ==
    IF t # <<>> /\ t[Len(t)] = " " THEN RStrip(SubSeq(t, 1, Len(t) - 1)) ELSE t
Strip(t) == RStrip(LStrip(t))

\* the literal without its sign
Unsigned(t) == IF t # <<>> /\ Head(t) \in {"+", "-"} THEN Tail(t) ELSE t

\* int(t) returns: an optional sign and one or more digits; else ValueError
IntValid(t) ==
    LET u == Unsigned(Strip(t))
    IN  u # <<>> /\ \A i \in DOMAIN u : u[i] \in Digits

RECURSIVE DigitsValue(_)
DigitsValue(u) ==
    IF u = <<>> THEN 0
    ELSE 10 * DigitsValue(SubSeq(u, 1, Len(u) - 1)) + DigitValue(u[Len(u)])

\* the value of int(t) when it returns
IntOf(t) ==
    LET st == Strip(t)
    IN  IF Head(st) = "-" THEN 0 - DigitsValue(Unsigned(st))
        ELSE DigitsValue(Unsigned(st))

\* try: return int(amount_str.replace(',', ''))
\* except (ValueError, AttributeError): return 0
_parse_amount(amount_str) ==
    IF amount_str.type # "str" THEN 0
    ELSE LET t == RemoveCommas(amount_str.text)
         IN  IF IntValid(t) THEN IntOf(t) ELSE 0

\* item.get(key, '0')
GetAmount(item, key) == IF key \in DOMAIN item THEN item[key] ELSE Str(<<"0">>)

\* the financial_item built from one item of the API
financial_item(item) ==
    Item(item.account_nm, item.sj_div,
         _parse_amount(GetAmount(item, "thstrm_amount")),
         _parse_amount(GetAmount(item, "frmtrm_amount")))

KwAsset == <<"ja", "san">>
KwLiability == <<"bu", "chae">>
KwBorrowing == <<"cha", "ip">>
KwEquity == <<"ja", "bon">>
KwRetainedEarnings == <<"i", "ik", "ing", "yeo", "geum">>
KwSales == <<"mae", "chul">>
KwProfit == <<"i", "ik">>
KwGainLoss == <<"son", "ik">>
KwExpense == <<"bi", "yong">>
KwCost == <<"won", "ga">>

NoBucket == "none"

\* the if/elif chain under sj_div == 'BS'
ClassifyBS(account_nm) ==
    IF Contains(account_nm, KwAsset) THEN "assets"
    ELSE IF Contains(account_nm, KwLiability) \/ Contains(account_nm, KwBorrowing)
    THEN "liabilities"
    ELSE IF Contains(account_nm, KwEquity) \/ Contains(account_nm, KwRetainedEarnings)
    THEN "equity"
    ELSE NoBucket

ClassifyIS_ExpensesFirst(account_nm) ==
    IF Contains(account_nm, KwExpense) \/ Contains(account_nm, KwCost)
    THEN "expenses"
    ELSE IF Contains(account_nm, KwSales) THEN "revenue"
    ELSE IF Contains(account_nm, KwProfit) \/ Contains(account_nm, KwGainLoss)
    THEN "profit"
    ELSE NoBucket

\* the if/elif chain under sj_div == 'IS'
ClassifyIS(account_nm) ==
    IF Contains(account_nm, KwSales) THEN "revenue"
    ELSE IF Contains(account_nm, KwProfit) \/ Contains(account_nm, KwGainLoss)
    THEN "profit"
    ELSE IF Contains(account_nm, KwExpense) \/ Contains(account_nm, KwCost)
    THEN "expenses"
    ELSE NoBucket

\* the parsed dict before the loop (its metadata is not modelled)
EmptyParsed ==
    [balance_sheet |-> [assets |-> EmptyDict, liabilities |-> EmptyDict,
                        equity |-> EmptyDict],
     income_statement |-> [revenue |-> EmptyDict, profit |-> EmptyDict,
                           expenses |-> EmptyDict],
     raw_data |-> <<>>]

StoreBucket_KeepFirst(bucket, account_nm, fi) ==
    IF account_nm \in DOMAIN bucket THEN bucket ELSE Put(bucket, account_nm, fi)

\* parsed[statement][bucket][account_nm] = financial_item
StoreBucket(bucket, account_nm, fi) == Put(bucket, account_nm, fi)

AppendRaw_OnlyClassified(p, item) ==
    IF \/ item.sj_div = "BS" /\ ClassifyBS(item.account_nm) # NoBucket
       \/ item.sj_div = "IS" /\ ClassifyIS(item.account_nm) # NoBucket
    THEN [p EXCEPT !.raw_data = Append(@, financial_item(item))]
    ELSE p

\* parsed['raw_data'].append(financial_item)
AppendRaw(p, item) == [p EXCEPT !.raw_data = Append(@, financial_item(item))]

ClassifyItem_DefaultIS(p, item) ==
    LET nm == item.account_nm
        fi == financial_item(item)
    IN  IF item.sj_div = "BS"
        THEN IF ClassifyBS(nm) = NoBucket THEN p
             ELSE [p EXCEPT !.balance_sheet[ClassifyBS(nm)] = StoreBucket(@, nm, fi)]
        ELSE IF ClassifyIS(nm) = NoBucket THEN p
             ELSE [p EXCEPT !.income_statement[ClassifyIS(nm)] = StoreBucket(@, nm, fi)]

\* if sj_div == 'BS': ... elif sj_div == 'IS': ...
ClassifyItem(p, item) ==
    LET nm == item.account_nm
        fi == financial_item(item)
    IN  IF item.sj_div = "BS"
        THEN IF ClassifyBS(nm) = NoBucket THEN p
             ELSE [p EXCEPT !.balance_sheet[ClassifyBS(nm)] = StoreBucket(@, nm, fi)]
        ELSE IF item.sj_div = "IS"
        THEN IF ClassifyIS(nm) = NoBucket THEN p
             ELSE [p EXCEPT !.income_statement[ClassifyIS(nm)] = StoreBucket(@, nm, fi)]
        ELSE p

\* one iteration of `for item in raw_data['list']`
ParseItem(p, item) == ClassifyItem(AppendRaw(p, item), item)

RECURSIVE ParseLoop(_, _, _)
ParseLoop(list, i, p) ==
    IF i > Len(list) THEN p
    ELSE ParseLoop(list, i + 1, ParseItem(p, list[i]))

\* parse_financial_data on raw_data['list']: {} when the list is empty
parse_financial_data(list) ==
    IF list = <<>> THEN EmptyDict ELSE ParseLoop(list, 1, EmptyParsed)

---------------------------------------------------------------------------
(* Specification of parse_financial_data *)

\* account names of the API, each with the sj_div it comes under
NmAssetLiability == <<"ja", "san", "bu", "chae">>
NmLiabilitiesAndEquity == <<"bu", "chae", "wa", "ja", "bon", "chong", "gye">>
NmBorrowings == <<"cha", "ip", "geum">>
NmSalesExpense == <<"pan", "mae", "bi", "yong">>
NmProductionCost == <<"je", "jo", "won", "ga">>
NmGainLoss == <<"dang", "gi", "son", "ik">>
NmIncomeTax == <<"beop", "in", "se">>

ApiNames ==
    {<<KwTotalAssets, "BS">>, <<NmAssetLiability, "BS">>,
     <<NmLiabilitiesAndEquity, "BS">>, <<NmBorrowings, "BS">>,
     <<KwTotalEquity, "BS">>, <<KwRetainedEarnings, "BS">>, <<NmCash, "BS">>,
     <<KwRevenue, "IS">>, <<KwCostOfSales, "IS">>, <<KwOperatingProfit, "IS">>,
     <<NmGainLoss, "IS">>, <<NmSalesExpense, "IS">>, <<NmProductionCost, "IS">>,
     <<NmIncomeTax, "IS">>, <<KwRetainedEarnings, "IS">>, <<KwTotalAssets, "IS">>,
     <<KwRevenue, "BS">>, <<KwTotalAssets, "CF">>, <<KwRevenue, "CIS">>,
     <<KwTotalEquity, "SCE">>}

\* the i-th item of a list: thstrm_amount "i,000", frmtrm_amount "i"
RowDigit(i) == IF i = 1 THEN "1" ELSE IF i = 2 THEN "2" ELSE "0"
ApiRows(names) ==
    [i \in DOMAIN names |->
        [account_nm |-> names[i][1], sj_div |-> names[i][2],
         thstrm_amount |-> Str(<<RowDigit(i), ",", "0", "0", "0">>),
         frmtrm_amount |-> Str(<<RowDigit(i)>>)]]

\* the characters of an amount text, and the texts of up to MaxText of them
Chars == Digits \cup {",", "-", "+", " ", "."}
Texts == UNION {[1..n -> Chars] : n \in 0..MaxText}

\* what the API can send as an amount: a text, null or a number
AmountValues == {Str(t) : t \in Texts} \cup {NoneValue, IntValue(5)}

\* one item whose thstrm_amount is v and whose frmtrm_amount is missing
AmountItem(v) == [account_nm |-> KwTotalAssets, sj_div |-> "BS", thstrm_amount |-> v]

InitParse ==
    /\ \/ \E n \in 0..MaxApiItems :
              \E names \in [1..n -> ApiNames] : api_list = ApiRows(names)
       \/ \E v \in AmountValues : api_list = <<AmountItem(v)>>
    /\ parsed = EmptyDict
    /\ raw_data = <<>>
    /\ accounts = EmptyDict
    /\ financial_data = EmptyDict
    /\ ratios = EmptyDict
    /\ multi_year_data = EmptyDict
    /\ multi_year_ratios = EmptyDict
    /\ pc = "start"
    /\ year_order = <<>>
    /\ calls = <<>>
    /\ threads = <<>>
    /\ TrendsIdle
    /\ AppIdle

ParseFinancialData ==
    /\ pc = "start"
    /\ parsed' = parse_financial_data(api_list)
    /\ pc' = "parsed"
    /\ UNCHANGED <<raw_data, accounts, financial_data, ratios, multi_year_data,
                   multi_year_ratios, year_order, calls, api_list, threads,
                   trendVars, appVars>>

NextParse == ParseFinancialData

SpecParse == InitParse /\ [][NextParse]_vars

---------------------------------------------------------------------------
(* Specification of concurrent requests: the threads of the server call
   calculate_ratios and calculate_multi_year_ratios on the one
   ratio_calculator of the process. A thread advances by one statement of
   the method at a time, in any interleaving with the other thread *)

\* two requests in flight
Threads == {1, 2}

Frame_Shared(t) == 1

\* the frame that holds the local variables of the call made by thread t:
\* every call has a frame of its own, and self has no attribute
Frame(t) == t

\* the local variables of thread t's call
Local(t) == threads[Frame(t)]

\* statements handed to the calls
ThreadData ==
    {EmptyDict,
     [raw_data |-> <<Item(KwTotalAssets, "BS", 2, 1), Item(KwRevenue, "IS", 1, 1)>>],
     [raw_data |-> <<Item(KwTotalEquity, "BS", 2, 1), Item(KwNetIncome, "IS", 1, 1)>>]}

\* the years of a multi-year request, in the order of its dict
AscendingYears == [j \in 1..Cardinality(Years) |-> 2021 + j]

\* a request: one statement for calculate_ratios, or a statement per year for
\* calculate_multi_year_ratios
ThreadRequests ==
    {[method |-> "calculate_ratios", data |-> d, multi_year_data |-> EmptyDict] :
        d \in ThreadData}
    \cup
    {[method |-> "calculate_multi_year_ratios", data |-> EmptyDict,
      multi_year_data |->
          [y \in Years |->
              IF y = 2022
              THEN [raw_data |-> <<Item(KwTotalAssets, "BS", 2, 1),
                                   Item(KwRevenue, "IS", 1, 1)>>]
              ELSE d]] : d \in ThreadData}

\* the families in the order the dict literal of calculate_ratios calls them
FamilySteps == <<"profitability", "stability", "growth", "activity">>

CalculateFamily(f, accts) ==
    CASE f = "profitability" -> _calculate_profitability_ratios(accts)
      [] f = "stability"     -> _calculate_stability_ratios(accts)
      [] f = "growth"        -> _calculate_growth_ratios(accts)
      [] f = "activity"      -> _calculate_activity_ratios(accts)

InitThreads ==
    /\ threads \in
           {[t \in Threads |->
                [pc |-> "start", request |-> req[t], returned |-> EmptyDict,
                 data |-> EmptyDict, items |-> <<>>, i |-> 1,
                 accounts |-> EmptyDict, ratios |-> EmptyDict,
                 result |-> EmptyDict, year |-> 0, k |-> 1,
                 table |-> EmptyDict]] : req \in [Threads -> ThreadRequests]}
    /\ TrendsIdle
    /\ AppIdle
    /\ raw_data = <<>>
    /\ accounts = EmptyDict
    /\ financial_data = EmptyDict
    /\ ratios = EmptyDict
    /\ multi_year_data = EmptyDict
    /\ multi_year_ratios = EmptyDict
    /\ pc = "start"
    /\ year_order = <<>>
    /\ calls = <<>>
    /\ api_list = <<>>
    /\ parsed = EmptyDict

otherVars == <<raw_data, accounts, financial_data, ratios, multi_year_data,
               multi_year_ratios, pc, year_order, calls, api_list, parsed,
               trendVars, appVars>>

\* the thread enters its method; calculate_multi_year_ratios starts with
\* multi_year_ratios = {}
ThreadCall(t) ==
    /\ threads[t].pc = "start"
    /\ IF threads[t].request.method = "calculate_ratios"
       THEN threads' = [threads EXCEPT ![Frame(t)].data = threads[t].request.data,
                                       ![t].pc = "guard"]
       ELSE threads' = [threads EXCEPT ![Frame(t)].table = EmptyDict,
                                       ![Frame(t)].k = 1,
                                       ![t].pc = "loop"]
    /\ UNCHANGED otherVars

\* for year, data in multi_year_data.items(): the next pair, or the return
ThreadLoop(t) ==
    /\ threads[t].pc = "loop"
    /\ IF Local(t).k > Len(AscendingYears)
       THEN threads' = [threads EXCEPT ![t].returned = Local(t).table,
                                       ![t].pc = "returned"]
       ELSE threads' = [threads EXCEPT
                ![Frame(t)].year = AscendingYears[Local(t).k],
                ![Frame(t)].data =
                    threads[t].request.multi_year_data[AscendingYears[Local(t).k]],
                ![Frame(t)].k = Local(t).k + 1,
                ![t].pc = "guard"]
    /\ UNCHANGED otherVars

\* if not financial_data or not financial_data.get('raw_data'): return {};
\* else the extractor starts with accounts = {}
ThreadGuard(t) ==
    /\ threads[t].pc = "guard"
    /\ IF EmptyInput(Local(t).data)
       THEN threads' = [threads EXCEPT ![Frame(t)].result = EmptyDict,
                                       ![t].pc = "exit"]
       ELSE threads' = [threads EXCEPT ![Frame(t)].items = Local(t).data["raw_data"],
                                       ![Frame(t)].accounts = EmptyDict,
                                       ![Frame(t)].i = 1,
                                       ![Frame(t)].ratios = EmptyDict,
                                       ![t].pc = "extract"]
    /\ UNCHANGED otherVars

ThreadExtract_PopItem(t) ==
    /\ threads[t].pc = "extract"
    /\ IF Local(t).items # <<>>
       THEN threads' = [threads EXCEPT
                ![Frame(t)].accounts =
                    ExtractItem(Local(t).accounts, Head(Local(t).items)),
                ![Frame(t)].items = Tail(Local(t).items),
                ![Frame(t)].data = [raw_data |-> Tail(Local(t).items)]]
       ELSE threads' = [threads EXCEPT ![t].pc = FamilySteps[1]]
    /\ UNCHANGED otherVars

\* one iteration of `for item in raw_data`, or the end of the loop
ThreadExtract(t) ==
    /\ threads[t].pc = "extract"
    /\ IF Local(t).i <= Len(Local(t).items)
       THEN threads' = [threads EXCEPT
                ![Frame(t)].accounts =
                    ExtractItem(Local(t).accounts, Local(t).items[Local(t).i]),
                ![Frame(t)].i = Local(t).i + 1]
       ELSE threads' = [threads EXCEPT ![t].pc = FamilySteps[1]]
    /\ UNCHANGED otherVars

\* one entry of the dict literal: 'profitability': self._calculate_...(accounts)
ThreadFamily(t) ==
    /\ \E n \in DOMAIN FamilySteps :
           /\ threads[t].pc = FamilySteps[n]
           /\ threads' = [threads EXCEPT
                  ![Frame(t)].ratios =
                      Put(Local(t).ratios, FamilySteps[n],
                          CalculateFamily(FamilySteps[n], Local(t).accounts)),
                  ![t].pc = IF n < Len(FamilySteps) THEN FamilySteps[n + 1]
                            ELSE "return"]
    /\ UNCHANGED otherVars

\* return ratios
ThreadReturn(t) ==
    /\ threads[t].pc = "return"
    /\ threads' = [threads EXCEPT ![Frame(t)].result = Local(t).ratios,
                                  ![t].pc = "exit"]
    /\ UNCHANGED otherVars

\* the caller takes the value of calculate_ratios: the route returns it,
\* calculate_multi_year_ratios stores it under the year
ThreadExit(t) ==
    /\ threads[t].pc = "exit"
    /\ IF threads[t].request.method = "calculate_ratios"
       THEN threads' = [threads EXCEPT ![t].returned = Local(t).result,
                                       ![t].pc = "returned"]
       ELSE threads' = [threads EXCEPT
                ![Frame(t)].table = Put(Local(t).table, Local(t).year, Local(t).result),
                ![t].pc = "loop"]
    /\ UNCHANGED otherVars

NextThreads ==
    \E t \in Threads :
        \/ ThreadCall(t)
        \/ ThreadLoop(t)
        \/ ThreadGuard(t)
        \/ ThreadExtract(t)
        \/ ThreadFamily(t)
        \/ ThreadReturn(t)
        \/ ThreadExit(t)

SpecThreads == InitThreads /\ [][NextThreads]_vars

---------------------------------------------------------------------------
(* Specification of get_ratio_trends on tables of yearly reports *)

\* str(n) of a non-negative int: its decimal digits
DecimalDigit(n) ==
    CASE n = 0 -> "0" [] n = 1 -> "1" [] n = 2 -> "2" [] n = 3 -> "3"
      [] n = 4 -> "4" [] n = 5 -> "5" [] n = 6 -> "6" [] n = 7 -> "7"
      [] n = 8 -> "8" [] n = 9 -> "9"

RECURSIVE str(_)
str(n) == IF n < 10 THEN <<DecimalDigit(n)>>
          ELSE Append(str(n \div 10), DecimalDigit(n % 10))

sorted_KeepOrder(keys) == keys

\* sorted(keys) of int keys: ascending
RECURSIVE InsertKey(_, _)
InsertKey(x, s) ==
    IF s = <<>> THEN <<x>>
    ELSE IF x < Head(s) THEN <<x>> \o s
    ELSE <<Head(s)>> \o InsertKey(x, Tail(s))

RECURSIVE SortKeys(_)
SortKeys(keys) ==
    IF keys = <<>> THEN <<>> ELSE InsertKey(Head(keys), SortKeys(Tail(keys)))

sorted(keys) == SortKeys(keys)

\* trend_data = {'years': [], 'values': [], 'ratio_info': None}
EmptyTrend == [years |-> <<>>, values |-> <<>>, ratio_info |-> NoneValue]

TrendStep_FillZero(td, year, table, category, name) ==
    LET report == table[year]
    IN  IF category \in DOMAIN report /\ name \in DOMAIN report[category]
        THEN LET ratio_info == report[category][name]
             IN  [years |-> Append(td.years, str(year)),
                  values |-> Append(td.values, ratio_info.value),
                  ratio_info |-> IF td.ratio_info = NoneValue
                                 THEN [name |-> ratio_info.name, unit |-> ratio_info.unit]
                                 ELSE td.ratio_info]
        ELSE [td EXCEPT !.years = Append(@, str(year)),
                        !.values = Append(@, <<0, 1>>)]

\* one iteration of `for year in sorted(multi_year_ratios.keys())`
TrendStep(td, year, table, category, name) ==
    LET report == table[year]
    IN  IF category \in DOMAIN report /\ name \in DOMAIN report[category]
        THEN LET ratio_info == report[category][name]
             IN  [years |-> Append(td.years, str(year)),
                  values |-> Append(td.values, ratio_info.value),
                  ratio_info |-> IF td.ratio_info = NoneValue
                                 THEN [name |-> ratio_info.name, unit |-> ratio_info.unit]
                                 ELSE td.ratio_info]
        ELSE td

RECURSIVE TrendLoop(_, _, _, _, _, _)
TrendLoop(table, order, i, category, name, td) ==
    IF i > Len(order) THEN td
    ELSE TrendLoop(table, order, i + 1, category, name,
                   TrendStep(td, order[i], table, category, name))

\* get_ratio_trends on a table whose keys() yields them in the given order
get_ratio_trends(table, keys, category, name) ==
    TrendLoop(table, sorted(keys), 1, category, name, EmptyTrend)

\* the category and ratio names a caller asks for, an unknown one of each
TrendCategories == {"profitability", "growth", "activity", "liquidity"}
TrendNames == {"roe", "revenue_growth", "asset_turnover", "per"}

\* the reports a table holds: of an empty statement, of a statement with no
\* key account, of the sample statements
TrendReports ==
    {calculate_ratios([raw_data |-> <<>>]),
     calculate_ratios([raw_data |-> <<Item(NmCash, "BS", 1, 1)>>])}
    \cup {calculate_ratios([raw_data |-> s]) : s \in SampleStatements}

InitTrends ==
    /\ \E Y \in SUBSET Years :
           /\ multi_year_ratios \in [Y -> TrendReports]
           /\ year_order \in Orders(Y)
    /\ ratio_category \in TrendCategories
    /\ ratio_name \in TrendNames
    /\ trend_data = EmptyDict
    /\ raw_data = <<>>
    /\ accounts = EmptyDict
    /\ financial_data = EmptyDict
    /\ ratios = EmptyDict
    /\ multi_year_data = EmptyDict
    /\ pc = "start"
    /\ calls = <<>>
    /\ api_list = <<>>
    /\ parsed = EmptyDict
    /\ threads = <<>>
    /\ AppIdle

GetRatioTrends ==
    /\ pc = "start"
    /\ trend_data' = get_ratio_trends(multi_year_ratios, year_order,
                                      ratio_category, ratio_name)
    /\ pc' = "trends"
    /\ UNCHANGED <<raw_data, accounts, financial_data, ratios, multi_year_data,
                   multi_year_ratios, year_order, calls, api_list, parsed,
                   threads, ratio_category, ratio_name, appVars>>

NextTrends == GetRatioTrends

SpecTrends == InitTrends /\ [][NextTrends]_vars

---------------------------------------------------------------------------
(* Specification of init_app of app.py: the attempts, the retries and the   *)
(* module globals                                                            *)

MaxRetries == 3
MaxCompanies == 11

\* a text, as the sequence of its characters
Text(t) == [type |-> "str", text |-> t]

\* one company of the corp-code file; stock_code is null for a company that
\* is not listed
Company(code, name, eng_name, listed) ==
    [corp_code |-> code, corp_name |-> name, corp_eng_name |-> eng_name,
     stock_code |-> IF listed THEN Text(<<"0", "0", "5">>) ELSE NoneValue]

NameSamsung == <<"S", "a", "m", "s", "u", "n", "g">>
NameHyundai == <<"H", "y", "u", "n", "d", "a", "i">>
NameOther == <<"K", "i", "a">>

\* what the corp-code file can hold when init_app runs
SampleFiles ==
    {<<>>,
     <<Company(1, NameSamsung, NameOther, TRUE)>>,
     <<Company(1, NameSamsung, NameOther, FALSE),
       Company(2, NameHyundai, NameSamsung, TRUE)>>}

\* the objects the constructors return
CompanySearcher(companies) == [companies |-> companies, total_count |-> Len(companies)]
FinancialDataFetcher == [base_url |-> "https://opendart.fss.or.kr/api"]
FinancialRatioCalculator == [class |-> "FinancialRatioCalculator"]
FinancialAnalysisAI(enabled) == [enabled |-> enabled]

\* where the try block of an attempt can end: at the raise of the file
\* check, in one of the four constructors, or at `return True`
TrySteps == <<"files", "searcher", "fetcher", "ratio_calculator", "ai_analyzer", "return">>
StepIndex(step) == CHOOSE n \in DOMAIN TrySteps : TrySteps[n] = step
After(step, reached) == StepIndex(reached) > StepIndex(step)

\* the steps whose exception leaves the try block: the handler of the AI
\* module sets ai_analyzer = None and goes on
Fatal_WithAI == {"files", "searcher", "fetcher", "ratio_calculator", "ai_analyzer"}
Fatal == {"files", "searcher", "fetcher", "ratio_calculator"}

\* init_app() is called: by the main block, by /init, by /search
EnterInitApp(who, retries) ==
    /\ caller' = who
    /\ retry_count' = 0
    /\ max_retries' = retries
    /\ attempts' = 0
    /\ init_result' = NoneValue
    /\ init_error' = ""
    /\ app_pc' = "attempt"

searchVars == <<query, listed_results, all_results, combined_results, response>>

CallInitApp ==
    /\ app_pc = "idle"
    /\ \E who \in {"main", "manual_init"} : \E retries \in 0..MaxRetries :
           EnterInitApp(who, retries)
    /\ UNCHANGED <<searcher, fetcher, ratio_calculator, ai_analyzer, corp_codes>>
    /\ UNCHANGED searchVars
    /\ UNCHANGED <<raw_data, accounts, financial_data, ratios, multi_year_data,
                   multi_year_ratios, pc, year_order, calls, api_list, parsed,
                   threads, trendVars>>

\* the try block of one attempt, ending at `stop`: every constructor before
\* `stop` has returned and its global is assigned
InitAppTry(stop, enabled) ==
    /\ attempts' = attempts + 1
    /\ searcher' = IF After("searcher", stop) THEN CompanySearcher(corp_codes)
                   ELSE searcher
    /\ fetcher' = IF After("fetcher", stop) THEN FinancialDataFetcher ELSE fetcher
    /\ ratio_calculator' = IF After("ratio_calculator", stop)
                           THEN FinancialRatioCalculator ELSE ratio_calculator
    /\ ai_analyzer' = IF After("ai_analyzer", stop) THEN FinancialAnalysisAI(enabled)
                      ELSE IF stop = "ai_analyzer" THEN NoneValue
                      ELSE ai_analyzer
    /\ IF stop \in Fatal
       THEN /\ app_pc' = "except"
            /\ init_error' = stop
            /\ UNCHANGED init_result
       ELSE /\ app_pc' = "returned"
            /\ init_result' = TRUE
            /\ UNCHANGED init_error

InitAppAttempt_AIFatal ==
    /\ app_pc = "attempt"
    /\ \E stop \in {TrySteps[n] : n \in DOMAIN TrySteps} : \E enabled \in BOOLEAN :
           /\ attempts' = attempts + 1
           /\ searcher' = IF After("searcher", stop) THEN CompanySearcher(corp_codes)
                          ELSE searcher
           /\ fetcher' = IF After("fetcher", stop) THEN FinancialDataFetcher ELSE fetcher
           /\ ratio_calculator' = IF After("ratio_calculator", stop)
                                  THEN FinancialRatioCalculator ELSE ratio_calculator
           /\ ai_analyzer' = IF After("ai_analyzer", stop) THEN FinancialAnalysisAI(enabled)
                             ELSE ai_analyzer
           /\ IF stop \in Fatal_WithAI
              THEN /\ app_pc' = "except"
                   /\ init_error' = stop
                   /\ UNCHANGED init_result
              ELSE /\ app_pc' = "returned"
                   /\ init_result' = TRUE
                   /\ UNCHANGED init_error
    /\ UNCHANGED <<corp_codes, caller, retry_count, max_retries>>
    /\ UNCHANGED searchVars
    /\ UNCHANGED <<raw_data, accounts, financial_data, ratios, multi_year_data,
                   multi_year_ratios, pc, year_order, calls, api_list, parsed,
                   threads, trendVars>>

\* one attempt: the try block of init_app up to its raise or its return
InitAppAttempt ==
    /\ app_pc = "attempt"
    /\ \E stop \in {TrySteps[n] : n \in DOMAIN TrySteps} : \E enabled \in BOOLEAN :
           InitAppTry(stop, enabled)
    /\ UNCHANGED <<corp_codes, caller, retry_count, max_retries>>
    /\ UNCHANGED searchVars
    /\ UNCHANGED <<raw_data, accounts, financial_data, ratios, multi_year_data,
                   multi_year_ratios, pc, year_order, calls, api_list, parsed,
                   threads, trendVars>>

InitAppRetry_SameCount ==
    /\ app_pc = "except"
    /\ retry_count < max_retries
    /\ attempts <= MaxRetries + 2
    /\ app_pc' = "attempt"
    /\ UNCHANGED <<searcher, fetcher, ratio_calculator, ai_analyzer, corp_codes,
                   caller, retry_count, max_retries, attempts, init_result, init_error>>
    /\ UNCHANGED searchVars
    /\ UNCHANGED <<raw_data, accounts, financial_data, ratios, multi_year_data,
                   multi_year_ratios, pc, year_order, calls, api_list, parsed,
                   threads, trendVars>>

\* if retry_count < max_retries: time.sleep(2 ** retry_count), then
\* return init_app(retry_count + 1, max_retries)
InitAppRetry ==
    /\ app_pc = "except"
    /\ retry_count < max_retries
    /\ retry_count' = retry_count + 1
    /\ app_pc' = "attempt"
    /\ UNCHANGED <<searcher, fetcher, ratio_calculator, ai_analyzer, corp_codes,
                   caller, max_retries, attempts, init_result, init_error>>
    /\ UNCHANGED searchVars
    /\ UNCHANGED <<raw_data, accounts, financial_data, ratios, multi_year_data,
                   multi_year_ratios, pc, year_order, calls, api_list, parsed,
                   threads, trendVars>>

\* else: return False
InitAppGiveUp ==
    /\ app_pc = "except"
    /\ ~(retry_count < max_retries)
    /\ init_result' = FALSE
    /\ app_pc' = "returned"
    /\ UNCHANGED <<searcher, fetcher, ratio_calculator, ai_analyzer, corp_codes,
                   caller, retry_count, max_retries, attempts, init_error>>
    /\ UNCHANGED searchVars
    /\ UNCHANGED <<raw_data, accounts, financial_data, ratios, multi_year_data,
                   multi_year_ratios, pc, year_order, calls, api_list, parsed,
                   threads, trendVars>>

\* the main block starts the server, /init answers: the thread is free for
\* the next call
InitAppDone ==
    /\ app_pc = "returned"
    /\ caller \in {"main", "manual_init"}
    /\ app_pc' = "idle"
    /\ UNCHANGED <<searcher, fetcher, ratio_calculator, ai_analyzer, corp_codes,
                   caller, retry_count, max_retries, attempts, init_result, init_error>>
    /\ UNCHANGED searchVars
    /\ UNCHANGED <<raw_data, accounts, financial_data, ratios, multi_year_data,
                   multi_year_ratios, pc, year_order, calls, api_list, parsed,
                   threads, trendVars>>

\* the module is loaded: the globals are None, the file is on disk
InitApp ==
    /\ searcher = NoneValue
    /\ fetcher = NoneValue
    /\ ratio_calculator = NoneValue
    /\ ai_analyzer = NoneValue
    /\ corp_codes \in SampleFiles
    /\ app_pc = "idle"
    /\ caller = ""
    /\ retry_count = 0
    /\ max_retries = 0
    /\ attempts = 0
    /\ init_result = NoneValue
    /\ init_error = ""
    /\ query = <<>>
    /\ listed_results = <<>>
    /\ all_results = <<>>
    /\ combined_results = <<>>
    /\ response = ""
    /\ raw_data = <<>>
    /\ accounts = EmptyDict
    /\ financial_data = EmptyDict
    /\ ratios = EmptyDict
    /\ multi_year_data = EmptyDict
    /\ multi_year_ratios = EmptyDict
    /\ pc = "start"
    /\ year_order = <<>>
    /\ calls = <<>>
    /\ api_list = <<>>
    /\ parsed = EmptyDict
    /\ threads = <<>>
    /\ TrendsIdle

NextInit ==
    \/ CallInitApp
    \/ InitAppAttempt
    \/ InitAppRetry
    \/ InitAppGiveUp
    \/ InitAppDone

SpecInit == InitApp /\ [][NextInit]_vars

\* a running init_app takes its next step: the attempt ends, the sleep of
\* the retry ends
SpecInitLive ==
    /\ SpecInit
    /\ WF_vars(InitAppAttempt)
    /\ WF_vars(InitAppRetry)
    /\ WF_vars(InitAppGiveUp)

---------------------------------------------------------------------------
(* Specification of /search of app.py: the two searches of CompanySearcher  *)
(* and the merge of their results                                            *)

ListedLimit == 5
AllLimit == 10
CombinedLimit == 10
DefaultMaxRetries == 3

\* str.lower() on the letters of the names
LowerChar(c) ==
    CASE c = "S" -> "s" [] c = "H" -> "h" [] c = "K" -> "k" [] OTHER -> c
lower(t) == [i \in DOMAIN t |-> LowerChar(t[i])]

\* search_by_name: the first `limit` companies whose corp_name or
\* corp_eng_name, in lower case, contains the query
RECURSIVE SearchByNameLoop(_, _, _, _, _)
SearchByNameLoop(companies, i, q, limit, results) ==
    IF i > Len(companies) THEN results
    ELSE LET company == companies[i]
             corp_name == lower(company.corp_name)
             corp_eng_name == lower(company.corp_eng_name)
         IN  IF \/ Contains(corp_name, q)
                \/ Contains(corp_eng_name, q)
                \/ SubSeq(corp_name, 1, Len(q)) = q
             THEN IF Len(results) + 1 >= limit THEN Append(results, company)
                  ELSE SearchByNameLoop(companies, i + 1, q, limit,
                                        Append(results, company))
             ELSE SearchByNameLoop(companies, i + 1, q, limit, results)

search_by_name(companies, company_name, limit) ==
    IF company_name = <<>> \/ Len(Strip(company_name)) < 1 THEN <<>>
    ELSE SearchByNameLoop(companies, 1, lower(Strip(company_name)), limit, <<>>)

\* search_listed_companies: the first `limit` companies with a stock code
\* whose corp_name, in lower case, contains the query (every listed company
\* when the query is empty)
RECURSIVE SearchListedLoop(_, _, _, _, _)
SearchListedLoop(companies, i, q, limit, results) ==
    IF i > Len(companies) THEN results
    ELSE LET company == companies[i]
         IN  IF company.stock_code # NoneValue
             THEN LET found == IF q = <<>> \/ Contains(lower(company.corp_name), q)
                               THEN Append(results, company) ELSE results
                  IN  IF Len(found) >= limit THEN found
                      ELSE SearchListedLoop(companies, i + 1, q, limit, found)
             ELSE SearchListedLoop(companies, i + 1, q, limit, results)

search_listed_companies(companies, company_name, limit) ==
    SearchListedLoop(companies, 1,
                     IF company_name = <<>> THEN <<>> ELSE lower(Strip(company_name)),
                     limit, <<>>)

SearchOrder_AllFirst(listed, all) == all \o listed

\* listed_results + all_results
SearchOrder(listed, all) == listed \o all

MergeStep_NoSeen(company, seen, combined) == Append(combined, company)

\* if company['corp_code'] not in seen: ... combined_results.append(company)
MergeStep(company, seen, combined) ==
    IF company.corp_code \notin seen THEN Append(combined, company) ELSE combined

\* the loop over listed_results + all_results, left at 10 results
RECURSIVE MergeLoop(_, _, _, _)
MergeLoop(list, i, seen, combined) ==
    IF i > Len(list) THEN combined
    ELSE LET next == MergeStep(list[i], seen, combined)
         IN  IF Len(next) >= CombinedLimit THEN next
             ELSE MergeLoop(list, i + 1, seen \cup {list[i].corp_code}, next)

Combine(listed, all) == MergeLoop(SearchOrder(listed, all), 1, {}, <<>>)

\* the companies of a file of n companies, those of the set L listed; by
\* kind, every third company is named Hyundai, with or without Samsung as
\* its English name, or the last company repeats the code of the first
SearchFile(n, L, kind) ==
    [i \in 1..n |->
        Company(IF kind = "repeated" /\ i = n THEN 1 ELSE i,
                IF kind \in {"english", "other"} /\ i % 3 = 0 THEN NameHyundai
                ELSE NameSamsung,
                IF kind = "english" /\ i % 3 = 0 THEN NameSamsung ELSE NameOther,
                i \in L)]

\* the positions of a file that can hold a listed company: its first three
\* and its last four
ListedPositions == (1..3) \cup ((MaxCompanies - 3)..MaxCompanies)

SearchFiles ==
    {SearchFile(n, L, "plain") : n \in 0..MaxCompanies, L \in SUBSET ListedPositions}
    \cup {SearchFile(MaxCompanies, L, kind) :
             L \in SUBSET ListedPositions, kind \in {"english", "other", "repeated"}}

\* the q parameter: blank, in another case with a blank, a second name
Queries ==
    {<<" ">>, <<" ", "S", "a", "m">>, <<"h", "y", "u", "n">>}

\* the server is up: init_app has returned True on the file, or it has not
\* run or has failed and the globals are None
InitSearch ==
    /\ \/ /\ corp_codes \in SearchFiles
          /\ searcher = CompanySearcher(corp_codes)
          /\ fetcher = FinancialDataFetcher
          /\ ratio_calculator = FinancialRatioCalculator
          /\ ai_analyzer = FinancialAnalysisAI(FALSE)
       \/ /\ corp_codes \in SampleFiles
          /\ searcher = NoneValue
          /\ fetcher = NoneValue
          /\ ratio_calculator = NoneValue
          /\ ai_analyzer = NoneValue
    /\ app_pc = "idle"
    /\ caller = ""
    /\ retry_count = 0
    /\ max_retries = 0
    /\ attempts = 0
    /\ init_result = NoneValue
    /\ init_error = ""
    /\ query = <<>>
    /\ listed_results = <<>>
    /\ all_results = <<>>
    /\ combined_results = <<>>
    /\ response = ""
    /\ raw_data = <<>>
    /\ accounts = EmptyDict
    /\ financial_data = EmptyDict
    /\ ratios = EmptyDict
    /\ multi_year_data = EmptyDict
    /\ multi_year_ratios = EmptyDict
    /\ pc = "start"
    /\ year_order = <<>>
    /\ calls = <<>>
    /\ api_list = <<>>
    /\ parsed = EmptyDict
    /\ threads = <<>>
    /\ TrendsIdle

initVars == <<caller, retry_count, max_retries, attempts, init_result, init_error>>

\* the two searches and the merge, answered with status success
SearchAndCombine(q) ==
    /\ listed_results' = search_listed_companies(searcher.companies, q, ListedLimit)
    /\ all_results' = search_by_name(searcher.companies, q, AllLimit)
    /\ combined_results' =
           Combine(search_listed_companies(searcher.companies, q, ListedLimit),
                   search_by_name(searcher.companies, q, AllLimit))
    /\ response' = "success"
    /\ app_pc' = "responded"

\* a request /search?q=...: answered at once for a blank query, searched
\* when the searcher is there, and else init_app is called first
SearchRequest ==
    /\ app_pc = "idle"
    /\ \E q \in Queries :
           /\ query' = Strip(q)
           /\ IF Strip(q) = <<>>
              THEN /\ response' = "empty_query"
                   /\ app_pc' = "responded"
                   /\ UNCHANGED <<listed_results, all_results, combined_results>>
                   /\ UNCHANGED initVars
              ELSE IF searcher = NoneValue
              THEN /\ EnterInitApp("search", DefaultMaxRetries)
                   /\ UNCHANGED <<listed_results, all_results, combined_results, response>>
              ELSE /\ SearchAndCombine(Strip(q))
                   /\ UNCHANGED initVars
    /\ UNCHANGED <<searcher, fetcher, ratio_calculator, ai_analyzer, corp_codes>>
    /\ UNCHANGED <<raw_data, accounts, financial_data, ratios, multi_year_data,
                   multi_year_ratios, pc, year_order, calls, api_list, parsed,
                   threads, trendVars>>

\* init_app has returned to /search: 503 if it failed or searcher is None
SearchResume ==
    /\ app_pc = "returned"
    /\ caller = "search"
    /\ IF init_result # TRUE \/ searcher = NoneValue
       THEN /\ response' = "initialization_failed"
            /\ app_pc' = "responded"
            /\ UNCHANGED <<listed_results, all_results, combined_results>>
       ELSE SearchAndCombine(query)
    /\ UNCHANGED <<query, searcher, fetcher, ratio_calculator, ai_analyzer, corp_codes>>
    /\ UNCHANGED initVars
    /\ UNCHANGED <<raw_data, accounts, financial_data, ratios, multi_year_data,
                   multi_year_ratios, pc, year_order, calls, api_list, parsed,
                   threads, trendVars>>

\* the answer is sent, the locals of the handler are gone
SearchDone ==
    /\ app_pc = "responded"
    /\ app_pc' = "idle"
    /\ query' = <<>>
    /\ listed_results' = <<>>
    /\ all_results' = <<>>
    /\ combined_results' = <<>>
    /\ response' = ""
    /\ caller' = ""
    /\ retry_count' = 0
    /\ max_retries' = 0
    /\ attempts' = 0
    /\ init_result' = NoneValue
    /\ init_error' = ""
    /\ UNCHANGED <<searcher, fetcher, ratio_calculator, ai_analyzer, corp_codes>>
    /\ UNCHANGED <<raw_data, accounts, financial_data, ratios, multi_year_data,
                   multi_year_ratios, pc, year_order, calls, api_list, parsed,
                   threads, trendVars>>

NextSearch ==
    \/ SearchRequest
    \/ InitAppAttempt
    \/ InitAppRetry
    \/ InitAppGiveUp
    \/ SearchResume
    \/ SearchDone

SpecSearch == InitSearch /\ [][NextSearch]_vars

---------------------------------------------------------------------------
(* The matching rules as the specification's section 4.2 states them, and   *)
(* the order of the branches, used to state the claims on the extractor     *)

Rule(k, item) ==
    LET nm == item.account_name
        bs == item.sj_div = "BS"
        is == item.sj_div = "IS"
    IN  \/ k = "total_assets" /\ bs /\ Contains(nm, KwTotalAssets)
        \/ k = "current_assets" /\ bs /\ Contains(nm, KwCurrentAssets)
        \/ k = "total_liabilities" /\ bs /\ Contains(nm, KwTotalLiabilities)
        \/ k = "current_liabilities" /\ bs /\ Contains(nm, KwCurrentLiabilities)
        \/ k = "total_equity" /\ bs /\ Contains(nm, KwTotalEquity)
        \/ k = "revenue" /\ is /\ Contains(nm, KwRevenue)
                         /\ ~Contains(nm, KwCostOfSales)
        \/ k = "operating_profit" /\ is /\ Contains(nm, KwOperatingProfit)
        \/ k = "net_income" /\ is /\ Contains(nm, KwNetIncome)
                            /\ ~Contains(nm, KwLoss)

ChainOrder ==
    <<"total_assets", "current_assets", "total_liabilities",
      "current_liabilities", "total_equity",
      "revenue", "operating_profit", "net_income">>

Rank(k) == CHOOSE n \in DOMAIN ChainOrder : ChainOrder[n] = k

\* the item satisfies k's rule and no rule tested before it
Routed(k, item) ==
    /\ Rule(k, item)
    /\ \A e \in AccountKeys : Rank(e) < Rank(k) => ~Rule(e, item)

RowsMatching(k) == {i \in DOMAIN raw_data : Rule(k, raw_data[i])}
RowsRouted(k) == {i \in DOMAIN raw_data : Routed(k, raw_data[i])}

MinOf(S) == CHOOSE x \in S : \A y \in S : x <= y
MaxOf(S) == CHOOSE x \in S : \A y \in S : y <= x

Stored(k, i) == k \in DOMAIN accounts /\ accounts[k] = AmountPair(raw_data[i])

---------------------------------------------------------------------------
(* Claims on _extract_key_accounts, checked under SpecExtract *)

C5_EveryMatchingKeyPopulated ==
    pc = "extracted" =>
        \A k \in AccountKeys :
            RowsMatching(k) # {} => k \in DOMAIN accounts

\* C5 amended: the rules of one statement type form an if/elif chain, so an
\* item populates only the first key, in chain order, whose rule it
\* satisfies: a key is present exactly when some item is routed to it, and
\* it then holds the amounts of an item routed to it.
C5_OnlyFirstMatchingKeyPopulated ==
    pc = "extracted" =>
        \A k \in AccountKeys :
            /\ k \in DOMAIN accounts <=> RowsRouted(k) # {}
            /\ k \in DOMAIN accounts => \E i \in RowsRouted(k) : Stored(k, i)

\* an item satisfies two rules and the later key stays unpopulated
C5_Witness ==
    /\ pc = "extracted"
    /\ \E i \in DOMAIN raw_data : \E k1, k2 \in AccountKeys :
           /\ Rank(k1) < Rank(k2)
           /\ Rule(k1, raw_data[i]) /\ Rule(k2, raw_data[i])
           /\ Stored(k1, i)
           /\ k2 \notin DOMAIN accounts

\* C6: an item whose name contains "maechulwonga" never populates revenue;
\* revenue holds the amounts of an IS item whose name contains "maechulaek"
\* and not "maechulwonga".
C6_RevenueExclusion ==
    pc = "extracted" =>
        /\ \A i \in DOMAIN raw_data :
               Contains(raw_data[i].account_name, KwCostOfSales)
                   => ~Stored("revenue", i)
        /\ "revenue" \in DOMAIN accounts =>
               \E i \in DOMAIN raw_data :
                   /\ raw_data[i].sj_div = "IS"
                   /\ Contains(raw_data[i].account_name, KwRevenue)
                   /\ ~Contains(raw_data[i].account_name, KwCostOfSales)
                   /\ Stored("revenue", i)

\* a revenue item is followed by an IS item naming both "maechulaek" and
\* "maechulwonga", and revenue still holds the first item's amounts
C6_Witness ==
    /\ pc = "extracted"
    /\ \E i, j \in DOMAIN raw_data :
           /\ i < j
           /\ Stored("revenue", i)
           /\ raw_data[j].sj_div = "IS"
           /\ Contains(raw_data[j].account_name, KwRevenue)
           /\ Contains(raw_data[j].account_name, KwCostOfSales)

\* C7: an item whose name contains "sonsil" never populates net_income;
\* net_income holds the amounts of an IS item whose name contains
\* "danggisuniik" and not "sonsil".
C7_NetIncomeExclusion ==
    pc = "extracted" =>
        /\ \A i \in DOMAIN raw_data :
               Contains(raw_data[i].account_name, KwLoss)
                   => ~Stored("net_income", i)
        /\ "net_income" \in DOMAIN accounts =>
               \E i \in DOMAIN raw_data :
                   /\ raw_data[i].sj_div = "IS"
                   /\ Contains(raw_data[i].account_name, KwNetIncome)
                   /\ ~Contains(raw_data[i].account_name, KwLoss)
                   /\ Stored("net_income", i)

\* a net-income item is followed by "danggisuniik(sonsil)" and by
\* "danggisunsonsil", and net_income still holds the first item's amounts
C7_Witness ==
    /\ pc = "extracted"
    /\ \E i, j, l \in DOMAIN raw_data :
           /\ i < j /\ i < l
           /\ Stored("net_income", i)
           /\ raw_data[j].sj_div = "IS" /\ raw_data[j].account_name = NmNetIncomeOrLoss
           /\ raw_data[l].sj_div = "IS" /\ raw_data[l].account_name = NmNetLoss

---------------------------------------------------------------------------
(* The ratio tables of the specification's section 4.3, used to state the   *)
(* claims on the ratio engine                                               *)

PercentRatios ==
    {"roe", "roa", "operating_margin", "net_margin",
     "debt_ratio", "equity_ratio", "current_ratio"}
GrowthRatios == {"revenue_growth", "income_growth", "asset_growth"}
RatioKeys == PercentRatios \cup GrowthRatios \cup {"asset_turnover"}

Family(r) ==
    CASE r \in {"roe", "roa", "operating_margin", "net_margin"} -> "profitability"
      [] r \in {"debt_ratio", "equity_ratio", "current_ratio"}  -> "stability"
      [] r \in GrowthRatios                                       -> "growth"
      [] r = "asset_turnover"                                     -> "activity"

\* the account in the numerator (for a growth ratio, the account it is on)
Numerator(r) ==
    CASE r \in {"roe", "roa", "net_margin", "income_growth"} -> "net_income"
      [] r = "operating_margin"                -> "operating_profit"
      [] r = "debt_ratio"                      -> "total_liabilities"
      [] r = "equity_ratio"                    -> "total_equity"
      [] r = "current_ratio"                   -> "current_assets"
      [] r \in {"revenue_growth", "asset_turnover"} -> "revenue"
      [] r = "asset_growth"                    -> "total_assets"

\* the account in the denominator
Denominator(r) ==
    CASE r \in {"roe", "debt_ratio"}                          -> "total_equity"
      [] r \in {"roa", "equity_ratio", "asset_turnover", "asset_growth"} -> "total_assets"
      [] r \in {"operating_margin", "net_margin", "revenue_growth"}      -> "revenue"
      [] r = "current_ratio"                                  -> "current_liabilities"
      [] r = "income_growth"                                  -> "net_income"

\* the denominator's amount: the prior amount for growth, else the current
DenominatorAmount(r) ==
    IF r \in GrowthRatios THEN accounts[Denominator(r)].previous
    ELSE accounts[Denominator(r)].current

FamilyNames == {"profitability", "stability", "growth", "activity"}

\* the report holds ratio key r in its family
Present(r) ==
    /\ DOMAIN ratios = FamilyNames
    /\ r \in DOMAIN ratios[Family(r)]

ValueOf(r) == ratios[Family(r)][r].value

\* an item list that is empty: {} or {'raw_data': []}
NoItems(data) == data = EmptyDict \/ data["raw_data"] = <<>>

FourEmptyFamilies == [f \in FamilyNames |-> EmptyDict]

---------------------------------------------------------------------------
(* Claims on calculate_ratios, checked under SpecRatios *)

\* C2: a ratio whose denominator account is absent, or whose denominator
\* amount is <= 0, is absent from the report; a ratio that is present
\* carries a number.
C2_RatioOmissionLaw ==
    pc = "done" =>
        \A r \in RatioKeys :
            /\ (\/ Denominator(r) \notin DOMAIN accounts
                \/ DenominatorAmount(r) <= 0) => ~Present(r)
            /\ Present(r) => ValueOf(r) \in Int \X (Nat \ {0})

\* a denominator of 0 and a negative one, each with its ratio left out
C2_Witness ==
    /\ pc = "done"
    /\ DOMAIN ratios = FamilyNames
    /\ DOMAIN accounts = {"net_income", "total_equity"}
    /\ accounts["net_income"].current > 0
    /\ accounts["total_equity"].current < 0
    /\ accounts["net_income"].previous = 0
    /\ ~Present("roe") /\ ~Present("income_growth")

C8_PercentRatioFormula ==
    pc = "done" =>
        \A r \in PercentRatios :
            (/\ Numerator(r) \in DOMAIN accounts
             /\ Denominator(r) \in DOMAIN accounts
             /\ accounts[Denominator(r)].current > 0)
            => /\ Present(r)
               /\ ValueOf(r) = Rat(100 * accounts[Numerator(r)].current,
                                   accounts[Denominator(r)].current)

\* sample_data: debt_ratio = 400000 / 600000 x 100 = 66.67 from the
\* current amounts, the prior amounts being other numbers
C8_Witness ==
    /\ pc = "done"
    /\ Present("debt_ratio")
    /\ accounts["total_liabilities"] = [current |-> 400000, previous |-> 380000]
    /\ accounts["total_equity"] = [current |-> 600000, previous |-> 520000]
    /\ ValueOf("debt_ratio") = <<200, 3>>

\* C9: the account present with prior > 0: the growth key is present with
\* value (current - prior) / prior x 100, negative exactly when
\* current < prior; 1100 over 1000 gives 10 and 900 over 1000 gives -10.
C9_GrowthRateFormula ==
    pc = "done" =>
        \A r \in GrowthRatios :
            LET a == Numerator(r)
            IN  (a \in DOMAIN accounts /\ accounts[a].previous > 0)
                => /\ Present(r)
                   /\ ValueOf(r) = Rat((accounts[a].current - accounts[a].previous) * 100,
                                       accounts[a].previous)
                   /\ ValueOf(r)[1] < 0 <=> accounts[a].current < accounts[a].previous
                   /\ accounts[a] = [current |-> 1100, previous |-> 1000]
                          => ValueOf(r) = <<10, 1>>
                   /\ accounts[a] = [current |-> 900, previous |-> 1000]
                          => ValueOf(r) = <<0 - 10, 1>>

\* revenue fell from 1000 to 900 and revenue_growth is -10
C9_Witness ==
    /\ pc = "done"
    /\ Present("revenue_growth")
    /\ accounts["revenue"] = [current |-> 900, previous |-> 1000]
    /\ ValueOf("revenue_growth") = <<0 - 10, 1>>

\* C10: revenue and total_assets present and total_assets.current > 0:
\* asset_turnover is present with value revenue.current /
\* total_assets.current, not multiplied by 100, in times; the activity
\* family has no other key.
C10_AssetTurnover ==
    pc = "done" =>
        /\ ("revenue" \in DOMAIN accounts /\ "total_assets" \in DOMAIN accounts
                /\ accounts["total_assets"].current > 0)
           => /\ Present("asset_turnover")
              /\ ValueOf("asset_turnover") =
                     Rat(accounts["revenue"].current, accounts["total_assets"].current)
              /\ ratios["activity"]["asset_turnover"].unit # "%"
        /\ DOMAIN ratios = FamilyNames
           => DOMAIN ratios["activity"] \subseteq {"asset_turnover"}

\* sample_data: revenue 800000 over total assets 1000000, a turnover of
\* 4/5 (0.8 times, not 80)
C10_Witness ==
    /\ pc = "done"
    /\ Present("asset_turnover")
    /\ accounts["revenue"].current = 800000
    /\ accounts["total_assets"].current = 1000000
    /\ ValueOf("asset_turnover") = <<4, 5>>

---------------------------------------------------------------------------
(* Claims on calculate_multi_year_ratios, checked under SpecMulti *)

\* the year's report holds at least one ratio
HasRatio(report) ==
    /\ DOMAIN report = FamilyNames
    /\ \E f \in FamilyNames : DOMAIN report[f] # {}

\* a year with ratios beside a year whose item list is empty
ValidYearAndEmptyYear ==
    /\ pc = "done"
    /\ \E y \in DOMAIN multi_year_data : NoItems(multi_year_data[y])
    /\ \E y \in DOMAIN multi_year_data :
           ~NoItems(multi_year_data[y])
           /\ HasRatio(calculate_ratios(multi_year_data[y]))

---------------------------------------------------------------------------
(* Further claims on calculate_ratios, checked under SpecRatios *)

\* C11: on the five items of scenario A the report holds, to two decimals,
\* roe 13.33, roa 8.00, net_margin 10.00, debt_ratio 66.67,
\* equity_ratio 60.00, revenue_growth 6.67, income_growth 14.29,
\* asset_growth 11.11 and asset_turnover 0.80, and neither operating_margin
\* nor current_ratio.
C11_ScenarioA ==
    (pc = "done" /\ financial_data = [raw_data |-> SampleData]) =>
        /\ \A r \in RatioKeys \ {"operating_margin", "current_ratio"} : Present(r)
        /\ ~Present("operating_margin") /\ ~Present("current_ratio")
        /\ Hundredths(ValueOf("roe")) = 1333
        /\ Hundredths(ValueOf("roa")) = 800
        /\ Hundredths(ValueOf("net_margin")) = 1000
        /\ Hundredths(ValueOf("debt_ratio")) = 6667
        /\ Hundredths(ValueOf("equity_ratio")) = 6000
        /\ Hundredths(ValueOf("revenue_growth")) = 667
        /\ Hundredths(ValueOf("income_growth")) = 1429
        /\ Hundredths(ValueOf("asset_growth")) = 1111
        /\ Hundredths(ValueOf("asset_turnover")) = 80

\* calculate_ratios has returned on scenario A, with roe = 40/3
C11_Witness ==
    /\ pc = "done"
    /\ financial_data = [raw_data |-> SampleData]
    /\ Present("roe")
    /\ ValueOf("roe") = <<40, 3>>

\* the family of the report that accts yields
FamilyOf(f, accts) ==
    CASE f = "profitability" -> _calculate_profitability_ratios(accts)
      [] f = "stability"     -> _calculate_stability_ratios(accts)
      [] f = "growth"        -> _calculate_growth_ratios(accts)
      [] f = "activity"      -> _calculate_activity_ratios(accts)

\* accts without the key k
Without(accts, k) == [x \in (DOMAIN accts) \ {k} |-> accts[x]]

\* C12: a ratio whose numerator key or denominator key is absent is absent
\* from the report, whatever the other account holds; and a report leaves
\* out a ratio with a non-positive denominator exactly as it would with the
\* denominator's key absent (the ratio's family is the same in both).
C12_AbsentKeySkipsRatio ==
    pc = "done" =>
        \A r \in RatioKeys :
            /\ (\/ Numerator(r) \notin DOMAIN accounts
                \/ Denominator(r) \notin DOMAIN accounts) => ~Present(r)
            /\ (/\ Denominator(r) \in DOMAIN accounts
                /\ DenominatorAmount(r) <= 0
                /\ DOMAIN ratios = FamilyNames)
               => (r \in DOMAIN ratios[Family(r)])
                    = (r \in DOMAIN FamilyOf(Family(r), Without(accounts, Denominator(r))))

\* total_equity > 0 and total_assets > 0 with no net_income and no revenue:
\* no roe, no roa, no asset_turnover
C12_Witness ==
    /\ pc = "done"
    /\ DOMAIN accounts = {"total_equity", "total_assets"}
    /\ accounts["total_equity"].current > 0
    /\ accounts["total_assets"].current > 0
    /\ DOMAIN ratios = FamilyNames
    /\ ~Present("roe") /\ ~Present("roa") /\ ~Present("asset_turnover")

---------------------------------------------------------------------------
(* Further claims on calculate_multi_year_ratios, checked under SpecMulti *)

\* C13: the table returned by calculate_multi_year_ratios has exactly the
\* year keys of its input, the report stored for a year is calculate_ratios
\* of that year's data alone, and every iteration order over the input
\* yields the same table.
C13_PerYearIndependent ==
    pc = "done" =>
        /\ DOMAIN multi_year_ratios = DOMAIN multi_year_data
        /\ \A y \in DOMAIN multi_year_data :
               multi_year_ratios[y] = calculate_ratios(multi_year_data[y])
        /\ \A o \in Orders(DOMAIN multi_year_data) :
               calculate_multi_year_ratios(multi_year_data, o) = multi_year_ratios

\* two years iterated latest first, the later one with ratios, the earlier
\* one with an empty report
C13_Witness ==
    /\ pc = "done"
    /\ Len(year_order) = 2
    /\ year_order[1] > year_order[2]
    /\ HasRatio(multi_year_ratios[year_order[1]])
    /\ multi_year_ratios[year_order[2]] = EmptyDict

---------------------------------------------------------------------------
(* Claims on repeated calls, checked under SpecCalls *)

\* the calls of _extract_key_accounts made so far
ExtractCalls == {i \in DOMAIN calls : calls[i].method = "_extract_key_accounts"}

---------------------------------------------------------------------------
(* Claims on the pipeline, checked under SpecPipeline *)

\* C15: on every list of items with string names, integer amounts and any
\* sj_div, calculate_ratios and calculate_multi_year_ratios return a result
\* and never raise.
C15_NeverRaises == pc # "raised"

---------------------------------------------------------------------------
(* Claims on parse_financial_data, checked under SpecParse *)

BucketNames == {"assets", "liabilities", "equity", "revenue", "profit", "expenses"}

\* the statement type a bucket belongs to
BucketStatement(b) ==
    IF b \in {"assets", "liabilities", "equity"} THEN "BS" ELSE "IS"

\* the bucket b of the parsed dict
Bucket(b) ==
    IF BucketStatement(b) = "BS" THEN parsed.balance_sheet[b]
    ELSE parsed.income_statement[b]

\* the rule of bucket b alone, on the name nm
BucketRule(b, nm) ==
    CASE b = "assets"      -> Contains(nm, KwAsset)
      [] b = "liabilities" -> Contains(nm, KwLiability) \/ Contains(nm, KwBorrowing)
      [] b = "equity"      -> Contains(nm, KwEquity) \/ Contains(nm, KwRetainedEarnings)
      [] b = "revenue"     -> Contains(nm, KwSales)
      [] b = "profit"      -> Contains(nm, KwProfit) \/ Contains(nm, KwGainLoss)
      [] b = "expenses"    -> Contains(nm, KwExpense) \/ Contains(nm, KwCost)

\* the priority of a bucket within its statement type
BucketPriority(b) ==
    CASE b \in {"assets", "revenue"}     -> 1
      [] b \in {"liabilities", "profit"} -> 2
      [] b \in {"equity", "expenses"}    -> 3

\* item i of the list goes to bucket b: b is of the item's statement type,
\* its rule applies and no rule of higher priority does
GoesTo(i, b) ==
    /\ api_list[i].sj_div = BucketStatement(b)
    /\ BucketRule(b, api_list[i].account_nm)
    /\ \A c \in BucketNames :
           (BucketStatement(c) = BucketStatement(b) /\ BucketPriority(c) < BucketPriority(b))
               => ~BucketRule(c, api_list[i].account_nm)

\* bucket b holds the item i, under the item's name
Holds(b, i) ==
    /\ api_list[i].account_nm \in DOMAIN Bucket(b)
    /\ Bucket(b)[api_list[i].account_nm] = financial_item(api_list[i])

\* C16: every item is held by at most one bucket, and only by the bucket of
\* the first rule that applies in the priority order of its statement type
\* (assets, liabilities, equity for BS; revenue, profit, expenses for IS).
C16_PriorityRouting ==
    (pc = "parsed" /\ api_list # <<>>) =>
        /\ \A i \in DOMAIN api_list : \A b \in BucketNames :
               Holds(b, i) => GoesTo(i, b)
        /\ \A i \in DOMAIN api_list : \A b, c \in BucketNames :
               (Holds(b, i) /\ Holds(c, i)) => b = c
        /\ \A b \in BucketNames : \A nm \in DOMAIN Bucket(b) :
               \E i \in DOMAIN api_list : api_list[i].account_nm = nm /\ GoesTo(i, b)
        /\ \A i \in DOMAIN api_list : \A b \in BucketNames :
               GoesTo(i, b) => api_list[i].account_nm \in DOMAIN Bucket(b)

\* a BS name with both "jasan" and "buchae" only in assets, and the IS name
\* "maechulwonga" only in revenue
C16_Witness ==
    /\ pc = "parsed"
    /\ Len(api_list) = 2
    /\ DOMAIN parsed.balance_sheet["assets"] = {NmAssetLiability}
    /\ DOMAIN parsed.balance_sheet["liabilities"] = {}
    /\ DOMAIN parsed.income_statement["revenue"] = {KwCostOfSales}
    /\ DOMAIN parsed.income_statement["expenses"] = {}

\* the items of the list that go to bucket b under the name nm
RoutedAs(b, nm) ==
    {i \in DOMAIN api_list : api_list[i].account_nm = nm /\ GoesTo(i, b)}

\* C17: a bucket holds one entry per distinct name routed to it, and the
\* entry under a name is the last item of the list routed to the bucket
\* under that name.
C17_BucketLastWriteWins ==
    (pc = "parsed" /\ api_list # <<>>) =>
        \A b \in BucketNames :
            /\ \A nm \in DOMAIN Bucket(b) :
                   /\ RoutedAs(b, nm) # {}
                   /\ Bucket(b)[nm] = financial_item(api_list[MaxOf(RoutedAs(b, nm))])
            /\ Cardinality(DOMAIN Bucket(b))
                   = Cardinality({api_list[i].account_nm :
                                     i \in {j \in DOMAIN api_list : GoesTo(j, b)}})

\* two items named "maechulaek" under IS: revenue holds one entry, with the
\* amounts 2,000 and 2 of the second
C17_Witness ==
    /\ pc = "parsed"
    /\ Len(api_list) = 2
    /\ api_list[1].account_nm = KwRevenue /\ api_list[1].sj_div = "IS"
    /\ api_list[2].account_nm = KwRevenue /\ api_list[2].sj_div = "IS"
    /\ DOMAIN parsed.income_statement["revenue"] = {KwRevenue}
    /\ parsed.income_statement["revenue"][KwRevenue] = Item(KwRevenue, "IS", 2000, 2)

\* C18: an item that no rule of its statement type matches is held by no
\* bucket and is still in raw_data; for a non-empty list raw_data has one
\* entry per item of the list, in the order of the list.
C18_RawDataKeepsEveryItem ==
    (pc = "parsed" /\ api_list # <<>>) =>
        /\ Len(parsed.raw_data) = Len(api_list)
        /\ \A i \in DOMAIN api_list :
               /\ parsed.raw_data[i] = financial_item(api_list[i])
               /\ (\A b \in BucketNames : ~GoesTo(i, b))
                      => \A b \in BucketNames : ~Holds(b, i)

\* an unmatched item ("hyeongeum" under BS) before a matched one: both in
\* raw_data, the first in no bucket
C18_Witness ==
    /\ pc = "parsed"
    /\ Len(api_list) = 2
    /\ api_list[1].account_nm = NmCash
    /\ \A b \in BucketNames : NmCash \notin DOMAIN Bucket(b)
    /\ Len(parsed.raw_data) = 2
    /\ parsed.raw_data[1].account_name = NmCash
    /\ DOMAIN parsed.balance_sheet["assets"] = {KwTotalAssets}

\* the positions of t that hold neither a comma nor a blank, its digits
Meaningful(t) == {i \in DOMAIN t : t[i] \notin {",", " "}}
DigitPositions(t) == {i \in DOMAIN t : t[i] \in Digits}

\* t is an integer written with thousands separators: digits, commas among
\* them, at most a sign in front, blanks only around
WrittenInteger(t) ==
    /\ DigitPositions(t) # {}
    /\ \A i \in Meaningful(t) :
           \/ t[i] \in Digits
           \/ t[i] \in {"+", "-"} /\ i = MinOf(Meaningful(t))
    /\ \A i \in DOMAIN t :
           t[i] = " " => (i < MinOf(Meaningful(t)) \/ i > MaxOf(Meaningful(t)))

RECURSIVE PowerOfTen(_)
PowerOfTen(n) == IF n = 0 THEN 1 ELSE 10 * PowerOfTen(n - 1)

RECURSIVE SumOver(_, _)
SumOver(S, t) ==
    IF S = {} THEN 0
    ELSE LET i == CHOOSE x \in S : TRUE
         IN  DigitValue(t[i])
                 * PowerOfTen(Cardinality({j \in DigitPositions(t) : j > i}))
             + SumOver(S \ {i}, t)

\* the integer that t writes
WrittenValue(t) ==
    IF t[MinOf(Meaningful(t))] = "-" THEN 0 - SumOver(DigitPositions(t), t)
    ELSE SumOver(DigitPositions(t), t)

\* what the amount of v has to be
ExpectedAmount(v) ==
    IF v.type = "str" /\ WrittenInteger(v.text) THEN WrittenValue(v.text) ELSE 0

\* C19: the amount parsed from a text is the signed integer the text writes
\* once its commas are removed, and 0 when the text writes no integer, when
\* the value is not a text and when the key is missing; so both amounts of
\* every item of raw_data are integers.
C19_AmountParsing ==
    (pc = "parsed" /\ api_list # <<>>) =>
        \A i \in DOMAIN api_list :
            /\ parsed.raw_data[i].current_amount \in Int
            /\ parsed.raw_data[i].previous_amount \in Int
            /\ parsed.raw_data[i].current_amount
                   = ExpectedAmount(api_list[i].thstrm_amount)
            /\ parsed.raw_data[i].previous_amount
                   = IF "frmtrm_amount" \in DOMAIN api_list[i]
                     THEN ExpectedAmount(api_list[i].frmtrm_amount) ELSE 0

\* "1,2" parsed as 12, with the missing frmtrm_amount parsed as 0
C19_Witness ==
    /\ pc = "parsed"
    /\ api_list = <<AmountItem(Str(<<"1", ",", "2">>))>>
    /\ parsed.raw_data[1].current_amount = 12
    /\ parsed.raw_data[1].previous_amount = 0

---------------------------------------------------------------------------
(* Claims on concurrent requests, checked under SpecThreads *)

\* what the request returns when nothing else runs
RunAlone(request) ==
    IF request.method = "calculate_ratios" THEN calculate_ratios(request.data)
    ELSE calculate_multi_year_ratios(request.multi_year_data, AscendingYears)

\* C20: under every interleaving of the threads' statements, a call of
\* calculate_ratios or calculate_multi_year_ratios that has returned has
\* returned what the same call returns when it runs alone.
C20_ParallelCallsIndependent ==
    \A t \in Threads :
        threads[t].pc = "returned" => threads[t].returned = RunAlone(threads[t].request)

\* both threads have returned, one from calculate_ratios and one from
\* calculate_multi_year_ratios, with different statements and with ratios
C20_Witness ==
    /\ threads # <<>>
    /\ \A t \in Threads : threads[t].pc = "returned"
    /\ threads[1].request.method = "calculate_ratios"
    /\ threads[2].request.method = "calculate_multi_year_ratios"
    /\ HasRatio(threads[1].returned)
    /\ \A y \in Years : HasRatio(threads[2].returned[y])
    /\ \E y \in Years : threads[2].returned[y] # threads[1].returned

---------------------------------------------------------------------------
(* Further claims on _extract_key_accounts, checked under SpecExtract *)

BalanceSheetKeys ==
    {"total_assets", "current_assets", "total_liabilities",
     "current_liabilities", "total_equity"}
IncomeStatementKeys == {"revenue", "operating_profit", "net_income"}

\* the statement type whose items may populate key k
StatementOf(k) == IF k \in BalanceSheetKeys THEN "BS" ELSE "IS"

\* C21: a balance-sheet key holds the amounts of an item with sj_div = BS and
\* an income-statement key those of an item with sj_div = IS; an item of the
\* other statement type, or of any other sj_div, is stored under no key,
\* whatever its name.
C21_StatementTypeGating ==
    pc = "extracted" =>
        /\ \A k \in DOMAIN accounts :
               /\ k \in BalanceSheetKeys \cup IncomeStatementKeys
               /\ \E i \in DOMAIN raw_data :
                      raw_data[i].sj_div = StatementOf(k) /\ Stored(k, i)
        /\ \A i \in DOMAIN raw_data : \A k \in AccountKeys :
               raw_data[i].sj_div # StatementOf(k) => ~Stored(k, i)

\* "jasanchonggye" under CF and "maechulaek" under BS beside
\* "jasanchonggye" under BS: only total_assets is populated, by the BS item
C21_Witness ==
    /\ pc = "extracted"
    /\ DOMAIN accounts = {"total_assets"}
    /\ \E i, j, l \in DOMAIN raw_data :
           /\ raw_data[i].account_name = KwTotalAssets /\ raw_data[i].sj_div = "CF"
           /\ raw_data[j].account_name = KwRevenue /\ raw_data[j].sj_div = "BS"
           /\ raw_data[l].account_name = KwTotalAssets /\ raw_data[l].sj_div = "BS"
           /\ i > l
           /\ Stored("total_assets", l)

\* C22: the pair stored under a key holds the current amount and the prior
\* amount of one and the same item of the list, an item that satisfies the
\* key's rule: no amount of another item, no sum, no other number.
C22_VerbatimSingleItemPair ==
    pc = "extracted" =>
        \A k \in DOMAIN accounts :
            /\ DOMAIN accounts[k] = {"current", "previous"}
            /\ \E i \in DOMAIN raw_data :
                   /\ Rule(k, raw_data[i])
                   /\ accounts[k].current = raw_data[i].current_amount
                   /\ accounts[k].previous = raw_data[i].previous_amount

\* three items routed to revenue, whose pair is that of the third alone
C22_Witness ==
    /\ pc = "extracted"
    /\ Len(raw_data) = 3
    /\ \A i \in DOMAIN raw_data : Routed("revenue", raw_data[i])
    /\ accounts["revenue"] = [current |-> 5, previous |-> 6]

\* the item satisfies no key's rule
Irrelevant(item) == \A k \in AccountKeys : ~Rule(k, item)

\* the list without its i-th item
Remove(list, i) == SubSeq(list, 1, i - 1) \o SubSeq(list, i + 1, Len(list))

InsideCalculateRatios == {"extract", "return"} \cup {FamilySteps[n] : n \in DOMAIN FamilySteps}

\* the statement that thread t handed to the call of calculate_ratios it is in
StatementOfCall(t) ==
    IF threads[t].request.method = "calculate_ratios" THEN threads[t].request.data
    ELSE threads[t].request.multi_year_data[threads[t].year]

\* what a step leaves as it was: the request of every thread, and for a
\* thread inside calculate_ratios the statement and item list it was given;
\* the accounts while the four families read them
InputsKept ==
    \A t \in Threads :
        /\ threads'[t].request = threads[t].request
        /\ (threads[t].pc \in InsideCalculateRatios /\ threads'[t].pc \in InsideCalculateRatios)
               => /\ threads'[t].data = threads[t].data
                  /\ threads'[t].items = threads[t].items
        /\ (threads[t].pc \in InsideCalculateRatios \ {"extract"}
                /\ threads'[t].pc \in InsideCalculateRatios)
               => threads'[t].accounts = threads[t].accounts

\* what a thread inside calculate_ratios sees through its parameters is
\* still what its caller handed over
InputsAsGiven ==
    \A t \in Threads :
        threads[t].pc \in InsideCalculateRatios =>
            /\ threads[t].data = StatementOfCall(t)
            /\ threads[t].items = StatementOfCall(t)["raw_data"]

\* C23: no step of calculate_ratios, _extract_key_accounts, the four
\* families or calculate_multi_year_ratios changes the statement, its item
\* list, the accounts or the by-year mapping it was given.
C23_NoMutationOfInputs == [](threads # <<>> => InputsAsGiven) /\ [][InputsKept]_vars

\* both threads have returned reports with ratios, and each request still
\* holds the statements it was made with
C23_Witness ==
    /\ threads # <<>>
    /\ \A t \in Threads :
           /\ threads[t].pc = "returned"
           /\ threads[t].request \in ThreadRequests
    /\ HasRatio(threads[1].returned)
    /\ threads[1].request.data["raw_data"] # <<>>
    /\ threads[2].request.method = "calculate_multi_year_ratios"

\* the item i of the API list belongs to another statement type
OtherStatement(i) == api_list[i].sj_div \notin {"BS", "IS"}

\* C24: an item whose sj_div is neither BS nor IS is held by no bucket,
\* whatever its name, the six buckets are the ones the list gives without
\* it, and the item is in raw_data at its position.
C24_OtherStatementTypesIgnored ==
    (pc = "parsed" /\ api_list # <<>>) =>
        \A i \in DOMAIN api_list :
            OtherStatement(i) =>
                /\ \A b \in BucketNames :
                       /\ ~Holds(b, i)
                       /\ \A nm \in DOMAIN Bucket(b) :
                              Bucket(b)[nm].sj_div = BucketStatement(b)
                /\ parsed.balance_sheet
                       = ParseLoop(Remove(api_list, i), 1, EmptyParsed).balance_sheet
                /\ parsed.income_statement
                       = ParseLoop(Remove(api_list, i), 1, EmptyParsed).income_statement
                /\ Len(parsed.raw_data) = Len(api_list)
                /\ parsed.raw_data[i] = financial_item(api_list[i])

\* "maechulaek" under CIS after "jasanchonggye" under BS: the revenue bucket
\* is empty, assets holds the first item, raw_data holds both
C24_Witness ==
    /\ pc = "parsed"
    /\ Len(api_list) = 2
    /\ api_list[2].account_nm = KwRevenue /\ api_list[2].sj_div = "CIS"
    /\ \A b \in BucketNames \ {"assets"} : DOMAIN Bucket(b) = {}
    /\ DOMAIN parsed.balance_sheet["assets"] = {KwTotalAssets}
    /\ Len(parsed.raw_data) = 2
    /\ parsed.raw_data[2].account_name = KwRevenue
    /\ parsed.raw_data[2].sj_div = "CIS"

\* the ratio keys of a family
KeysOf(f) == {r \in RatioKeys : Family(r) = f}

\* C25: a returned report is the empty mapping or has exactly the four
\* family keys; each family holds only its own ratio keys (roe, roa,
\* operating_margin, net_margin / debt_ratio, equity_ratio, current_ratio /
\* revenue_growth, income_growth, asset_growth / asset_turnover), and every
\* ratio in it has a value, a name and a unit.
C25_ReportShape ==
    pc = "done" =>
        \/ ratios = EmptyDict
        \/ /\ DOMAIN ratios = FamilyNames
           /\ \A f \in FamilyNames :
                  /\ DOMAIN ratios[f] \subseteq KeysOf(f)
                  /\ \A r \in DOMAIN ratios[f] :
                         /\ DOMAIN ratios[f][r] = {"value", "name", "unit"}
                         /\ ratios[f][r].value[2] > 0
           /\ KeysOf("profitability") = {"roe", "roa", "operating_margin", "net_margin"}
           /\ KeysOf("stability") = {"debt_ratio", "equity_ratio", "current_ratio"}
           /\ KeysOf("growth") = {"revenue_growth", "income_growth", "asset_growth"}
           /\ KeysOf("activity") = {"asset_turnover"}

\* a report with ratios in two families and two empty ones
C25_Witness ==
    /\ pc = "done"
    /\ DOMAIN ratios = FamilyNames
    /\ DOMAIN ratios["profitability"] = {}
    /\ DOMAIN ratios["activity"] = {"asset_turnover"}
    /\ DOMAIN ratios["growth"] # {}
    /\ DOMAIN ratios["stability"] = {}
    /\ DOMAIN ratios["activity"]["asset_turnover"] = {"value", "name", "unit"}

\* the years of the table whose report has the asked ratio in the asked
\* category
YearsWithRatio ==
    {y \in DOMAIN multi_year_ratios :
        /\ ratio_category \in DOMAIN multi_year_ratios[y]
        /\ ratio_name \in DOMAIN multi_year_ratios[y][ratio_category]}

\* the number a text of decimal digits writes
CharDigit(c) ==
    CASE c = "0" -> 0 [] c = "1" -> 1 [] c = "2" -> 2 [] c = "3" -> 3
      [] c = "4" -> 4 [] c = "5" -> 5 [] c = "6" -> 6 [] c = "7" -> 7
      [] c = "8" -> 8 [] c = "9" -> 9

RECURSIVE Written(_)
Written(t) ==
    IF t = <<>> THEN 0
    ELSE 10 * Written(SubSeq(t, 1, Len(t) - 1)) + CharDigit(t[Len(t)])

\* C27: the years of the trend are, in ascending order, exactly the years
\* whose report has the ratio key in the category; values[i] is the ratio
\* value of years[i]; ratio_info is null exactly when the lists are empty.
C27_TrendOfPresentYears ==
    pc = "trends" =>
        /\ Len(trend_data.years) = Cardinality(YearsWithRatio)
        /\ Len(trend_data.values) = Len(trend_data.years)
        /\ {Written(trend_data.years[i]) : i \in DOMAIN trend_data.years} = YearsWithRatio
        /\ \A i, j \in DOMAIN trend_data.years :
               i < j => Written(trend_data.years[i]) < Written(trend_data.years[j])
        /\ \A i \in DOMAIN trend_data.years :
               trend_data.values[i] =
                   multi_year_ratios[Written(trend_data.years[i])]
                       [ratio_category][ratio_name].value
        /\ trend_data.ratio_info = NoneValue <=> trend_data.years = <<>>
        /\ trend_data.ratio_info = NoneValue <=> trend_data.values = <<>>

\* keys() yields 2023 before 2022, both years have revenue_growth, 10 and
\* -10 percent: the trend lists 2022 first
C27_Witness ==
    /\ pc = "trends"
    /\ year_order = <<2023, 2022>>
    /\ ratio_category = "growth" /\ ratio_name = "revenue_growth"
    /\ trend_data.years = <<<<"2", "0", "2", "2">>, <<"2", "0", "2", "3">>>>
    /\ trend_data.values = <<<<10, 1>>, <<0 - 10, 1>>>>
    /\ trend_data.ratio_info # NoneValue

\* one year has roe and the other does not: one entry, not two
C27_WitnessSkippedYear ==
    /\ pc = "trends"
    /\ Cardinality(DOMAIN multi_year_ratios) = 2
    /\ ratio_name = "roe"
    /\ Len(trend_data.years) = 1

---------------------------------------------------------------------------
(* Claims on init_app, checked under SpecInit and SpecInitLive *)

\* init_app is running
InInitApp == app_pc \in {"attempt", "except"}

\* the attempts made so far, from the position in the call
AttemptsBounded ==
    (app_pc # "idle" \/ caller # "") =>
        /\ retry_count \in 0..max_retries
        /\ attempts <= max_retries + 1
        /\ attempts = IF app_pc = "attempt" THEN retry_count ELSE retry_count + 1
        /\ (app_pc = "returned" /\ init_result = FALSE)
               => /\ retry_count = max_retries
                  /\ attempts = max_retries + 1
                  /\ init_error # ""
        /\ (app_pc = "returned") => init_result \in BOOLEAN

\* retry_count changes only in a retry after a failed attempt, by one; a new
\* call starts from 0
RetrySteps ==
    /\ (retry_count' # retry_count /\ app_pc # "idle")
           => /\ app_pc = "except" /\ app_pc' = "attempt"
              /\ retry_count' = retry_count + 1
              /\ attempts' = attempts
    /\ (app_pc = "idle" /\ app_pc' = "attempt")
           => retry_count' = 0 /\ attempts' = 0
    /\ (app_pc = "attempt" /\ app_pc' # "attempt")
           => /\ attempts' = attempts + 1
              /\ \/ app_pc' = "returned" /\ init_result' = TRUE
                 \/ app_pc' = "except" /\ init_error' # ""
    /\ (app_pc = "except" /\ app_pc' = "returned")
           => init_result' = FALSE /\ retry_count = max_retries

\* C28: from retry_count = 0, init_app makes at most max_retries + 1
\* attempts, retries only after a failed attempt with retry_count one
\* higher, and always returns: True from the first attempt that succeeds,
\* False once the attempt with retry_count = max_retries has failed.
C28_InitAppTerminates ==
    /\ []AttemptsBounded
    /\ [][RetrySteps]_vars
    /\ (InInitApp ~> app_pc = "returned")

\* the default call gave up after four attempts
C28_Witness ==
    /\ app_pc = "returned"
    /\ max_retries = 3
    /\ retry_count = 3
    /\ attempts = 4
    /\ init_result = FALSE

\* C29: when init_app returns True, searcher, fetcher and ratio_calculator
\* are not null; no attempt ends in the handler because of the AI analyzer:
\* an attempt that fails only there sets ai_analyzer to None and returns
\* True.
C29_ReturnedTrue ==
    (app_pc = "returned" /\ init_result = TRUE) =>
        /\ searcher # NoneValue
        /\ fetcher # NoneValue
        /\ ratio_calculator # NoneValue
        /\ searcher = CompanySearcher(corp_codes)

C29_AIFailureNotFatal ==
    (app_pc = "attempt" /\ app_pc' = "except") =>
        /\ init_error' \in {"files", "searcher", "fetcher", "ratio_calculator"}
        /\ ai_analyzer' = ai_analyzer

C29_SuccessImpliesModules == []C29_ReturnedTrue /\ [][C29_AIFailureNotFatal]_vars

\* the first attempt failed, the second returned True without the AI
\* analyzer
C29_Witness ==
    /\ app_pc = "returned"
    /\ init_result = TRUE
    /\ attempts = 2
    /\ ai_analyzer = NoneValue
    /\ searcher # NoneValue /\ fetcher # NoneValue /\ ratio_calculator # NoneValue

---------------------------------------------------------------------------
(* Claims on /search, checked under SpecSearch *)

\* listed_results + all_results, and the positions of it that hold the
\* first occurrence of their corp_code
BothLists == listed_results \o all_results
FirstOccurrences ==
    {i \in DOMAIN BothLists :
        \A j \in 1..(i - 1) : BothLists[j].corp_code # BothLists[i].corp_code}

\* the k-th smallest element of a set of ints
RECURSIVE Nth(_, _)
Nth(S, k) == IF k = 1 THEN MinOf(S) ELSE Nth(S \ {MinOf(S)}, k - 1)

ListedCodes == {listed_results[i].corp_code : i \in DOMAIN listed_results}

\* C30: the combined list has no two companies with the same corp_code and
\* at most 10 entries; it is the first occurrences of listed_results
\* followed by all_results, in that order, up to 10; every listed result in
\* it comes before every result that is only in all_results.
C30_MergedResults ==
    response = "success" =>
        /\ \A i, j \in DOMAIN combined_results :
               combined_results[i].corp_code = combined_results[j].corp_code => i = j
        /\ Len(combined_results) <= 10
        /\ Len(combined_results) =
               IF Cardinality(FirstOccurrences) < 10
               THEN Cardinality(FirstOccurrences) ELSE 10
        /\ \A k \in DOMAIN combined_results :
               combined_results[k] = BothLists[Nth(FirstOccurrences, k)]
        /\ \A i, j \in DOMAIN combined_results :
               (combined_results[i].corp_code \in ListedCodes
                    /\ combined_results[j].corp_code \notin ListedCodes) => i < j

\* eleven companies match, the last two are listed: both lead the combined
\* list, and the tenth match is cut
C30_Witness ==
    /\ response = "success"
    /\ Len(listed_results) = 2
    /\ Len(all_results) = 10
    /\ Len(combined_results) = 10
    /\ Cardinality(FirstOccurrences) = 11
    /\ combined_results[1].corp_code = 10
    /\ combined_results[2].corp_code = 11
    /\ combined_results[3].corp_code = 1
    /\ combined_results[10].corp_code = 8

===========================================================================
